---------------------------- MODULE Spec2Model ----------------------------
(***************************************************************************)
(* Path inference sweep of metlo (fixEndpoints / fixEndpoint / getPaths)   *)
(* and its per-trace pipeline (analyze) with the sample store, the         *)
(* caller's transaction and the webhook delivery around it.                *)
(*                                                                         *)
(* Paths and tokens are strings.  A list of paths (the Redis list          *)
(* endpointPaths:e#<uuid>, and every array derived from it) is kept        *)
(* run-length encoded: the entry [v |-> p, n |-> k] stands for k           *)
(* consecutive equal elements p, k >= 1.  Array operations of the source   *)
(* (length, map, filter, [0], countBy) are computed on that encoding, so   *)
(* lists of hundreds of paths (the 100 default and the 500 threshold)      *)
(* stay within reach.                                                      *)
(***************************************************************************)
EXTENDS Integers, Sequences, FiniteSets, TLC

(***************************************************************************)
(* Characters and strings                                                  *)
(***************************************************************************)
Lower ==
  {"a","b","c","d","e","f","g","h","i","j","k","l","m",
   "n","o","p","q","r","s","t","u","v","w","x","y","z"}

Upper ==
  {"A","B","C","D","E","F","G","H","I","J","K","L","M",
   "N","O","P","Q","R","S","T","U","V","W","X","Y","Z"}

Digit ==
  {"0","1","2","3","4","5","6","7","8","9"}

\* s[i] of the source (1-based here), as a one-character string
Ch(s, i) ==
  SubSeq(s, i, i)

startsWith(s, c) ==
  Len(s) >= 1 /\ Ch(s, 1) = c

endsWith(s, c) ==
  Len(s) >= 1 /\ Ch(s, Len(s)) = c

\* String.prototype.split("/"): "" gives [""], "a//b" gives ["a","","b"]
RECURSIVE SplitFrom(_, _, _)
SplitFrom(s, i, cur) ==
  IF i > Len(s) THEN <<cur>>
  ELSE IF Ch(s, i) = "/" THEN <<cur>> \o SplitFrom(s, i + 1, "")
  ELSE SplitFrom(s, i + 1, cur \o Ch(s, i))

split(s) ==
  SplitFrom(s, 1, "")

\* the decimal digit d (0..9) as a character
DigitChar(d) ==
  CASE d = 0 -> "0" [] d = 1 -> "1" [] d = 2 -> "2" [] d = 3 -> "3"
    [] d = 4 -> "4" [] d = 5 -> "5" [] d = 6 -> "6" [] d = 7 -> "7"
    [] d = 8 -> "8" [] d = 9 -> "9"

DigitVal(c) ==
  CHOOSE d \in 0..9 : DigitChar(d) = c

\* `${n}` of a template literal, n a non-negative integer
RECURSIVE NumStr(_)
NumStr(n) ==
  IF n < 10 THEN DigitChar(n) ELSE NumStr(n \div 10) \o DigitChar(n % 10)

(***************************************************************************)
(* Run-length encoded arrays                                               *)
(***************************************************************************)
RECURSIVE SumN(_, _)
SumN(runs, i) ==
  IF i > Len(runs) THEN 0 ELSE runs[i].n + SumN(runs, i + 1)

\* Array.prototype.length
Length(runs) ==
  SumN(runs, 1)

(***************************************************************************)
(* enum TokenType, the two regular expressions, sanitizePath               *)
(***************************************************************************)
TokenType_CONSTANT == "CONSTANT"

TokenType_PARAM == "PARAM"

\* s is "{param" [0-9]+ "}" starting at index i of the token
ParamAt(s, i) ==
  /\ i + 5 <= Len(s)
  /\ SubSeq(s, i, i + 5) = "{param"
  /\ \E j \in (i + 7)..Len(s) :
        /\ Ch(s, j) = "}"
        /\ \A k \in (i + 6)..(j - 1) : Ch(s, k) \in Digit

\* new RegExp("{param[0-9]+}"), not anchored: a match anywhere in the token
paramRegexp(s) ==
  \E i \in 1..Len(s) : ParamAt(s, i)

\* new RegExp("^[A-Za-z-_.]+$")
validTokenRegexp(s) ==
  /\ Len(s) >= 1
  /\ \A i \in 1..Len(s) : Ch(s, i) \in Lower \cup Upper \cup {"-", "_", "."}

sanitizePath(path) ==
  LET p1 == IF startsWith(path, "/") THEN SubSeq(path, 2, Len(path)) ELSE path
  IN  IF endsWith(p1, "/") THEN SubSeq(p1, 1, Len(p1) - 1) ELSE p1


(***************************************************************************)
(* MIN_CONST_RATIO = 0.3 and the literals 500 and 0.1 of getPaths.  The    *)
(* ratios are kept as tenths: for integers count and length the IEEE-754   *)
(* product length * 0.3 (length * 0.1) rounds to the exact integer when    *)
(* 3*length/10 (length/10) is one, and is otherwise at least 0.1 away from *)
(* every integer, so count > length * 0.3 is 10*count > 3*length.          *)
(***************************************************************************)
MIN_CONST_RATIO_TENTHS == 3

LOW_CONST_RATIO_TENTHS == 1

HIGH_COUNT == 500

(***************************************************************************)
(* lodash countBy followed by Object.entries                               *)
(***************************************************************************)
\* the distinct values of a run-length encoded array, by first occurrence
RECURSIVE InsertionKeys(_, _, _)
InsertionKeys(runs, i, acc) ==
  IF i > Len(runs) THEN acc
  ELSE IF \E j \in 1..Len(acc) : acc[j] = runs[i].v
       THEN InsertionKeys(runs, i + 1, acc)
       ELSE InsertionKeys(runs, i + 1, Append(acc, runs[i].v))

\* how many elements of the array equal value
RECURSIVE CountOf(_, _, _)
CountOf(runs, value, i) ==
  IF i > Len(runs) THEN 0
  ELSE (IF runs[i].v = value THEN runs[i].n ELSE 0) + CountOf(runs, value, i + 1)

\* a key that is a canonical array index ("0", "7", "12"; up to 9 digits here)
IsIndexKey(s) ==
  /\ Len(s) >= 1
  /\ Len(s) <= 9
  /\ \A i \in 1..Len(s) : Ch(s, i) \in Digit
  /\ (Len(s) = 1 \/ Ch(s, 1) # "0")

RECURSIVE IndexValue(_, _, _)
IndexValue(s, i, acc) ==
  IF i > Len(s) THEN acc ELSE IndexValue(s, i + 1, acc * 10 + DigitVal(Ch(s, i)))

RECURSIVE SortIndexKeys(_)
SortIndexKeys(keys) ==
  IF keys = {} THEN <<>>
  ELSE LET k == CHOOSE x \in keys :
                  \A y \in keys : IndexValue(x, 1, 0) <= IndexValue(y, 1, 0)
       IN  <<k>> \o SortIndexKeys(keys \ {k})

\* Object.entries(countBy(values)): index-like keys first, in ascending
\* numeric order, then the other keys in insertion order
countByEntries(values) ==
  LET keys   == InsertionKeys(values, 1, <<>>)
      idx    == {keys[i] : i \in {j \in 1..Len(keys) : IsIndexKey(keys[j])}}
      others == SelectSeq(keys, LAMBDA k : ~IsIndexKey(k))
      order  == SortIndexKeys(idx) \o others
  IN  [i \in 1..Len(order) |->
         [token |-> order[i], count |-> CountOf(values, order[i], 1)]]

(***************************************************************************)
(* getPaths (closure of fixEndpoint over currentEndpointTokens and         *)
(* minAnalyzeTraces, passed explicitly here).  position is 0-based as in   *)
(* the source; sequences are 1-based.                                      *)
(***************************************************************************)
TokenTypeOf(e) ==
  IF paramRegexp(e) THEN TokenType_PARAM ELSE TokenType_CONSTANT

\* tokenizedTraces.map(e => e[position])
TokensAt(tokenizedTraces, position) ==
  [i \in 1..Len(tokenizedTraces) |->
     [v |-> tokenizedTraces[i].v[position + 1], n |-> tokenizedTraces[i].n]]

\* isValidToken with the ratio test at one half
isValidTokenHalf(token, count, length) ==
  /\ \/ 10 * count > length * 5
     \/ (count > 500 /\ 10 * count > length)
  /\ validTokenRegexp(token)

\* isValidToken with >= for > in the ratio test
isValidTokenGeq(token, count, length) ==
  /\ \/ 10 * count >= length * 3
     \/ (count > 500 /\ 10 * count > length)
  /\ validTokenRegexp(token)

\* the filter predicate on one [token, count] entry
isValidToken(token, count, length) ==
  /\ \/ 10 * count > length * MIN_CONST_RATIO_TENTHS
     \/ (count > HIGH_COUNT /\ 10 * count > length * LOW_CONST_RATIO_TENTHS)
  /\ validTokenRegexp(token)

\* the value of validTokens before the branch on its length
validTokens(currentEndpointTokens, minAnalyzeTraces, tokenizedTraces, position) ==
  IF TokenTypeOf(currentEndpointTokens[position + 1]) = TokenType_CONSTANT
  THEN <<currentEndpointTokens[position + 1]>>
  ELSE IF Length(tokenizedTraces) >= minAnalyzeTraces
  THEN LET tokenCount == countByEntries(TokensAt(tokenizedTraces, position))
           kept == SelectSeq(tokenCount,
                     LAMBDA e : isValidToken(e.token, e.count, Length(tokenizedTraces)))
       IN  [i \in 1..Len(kept) |-> kept[i].token]
  ELSE <<>>

\* nextPaths.map(e => `/${tok}${e}`), or [`/${tok}`] when nextPaths is empty
PrefixAll(tok, nextPaths) ==
  IF Len(nextPaths) > 0
  THEN [i \in 1..Len(nextPaths) |-> "/" \o tok \o nextPaths[i]]
  ELSE <<"/" \o tok>>

RECURSIVE getPaths(_, _, _, _, _)
RECURSIVE getPathsBranches(_, _, _, _, _, _, _)

RECURSIVE getPathsBranchesCounting(_, _, _, _, _, _, _)

\* a for loop in which a position promoted to a literal uses up a number
getPathsBranchesCounting(currentEndpointTokens, minAnalyzeTraces, tokenizedTraces, position, currParams, toks, i) ==
  IF i > Len(toks) THEN <<>>
  ELSE LET validTok  == toks[i]
           nextPaths == getPaths(currentEndpointTokens, minAnalyzeTraces,
                          SelectSeq(tokenizedTraces,
                                    LAMBDA e : e.v[position + 1] = validTok),
                          position + 1, currParams + 1)
       IN  PrefixAll(validTok, nextPaths)
             \o getPathsBranchesCounting(currentEndpointTokens, minAnalyzeTraces,
                                         tokenizedTraces, position, currParams, toks, i + 1)

\* the for loop over validTokens, from its i-th element on
getPathsBranches(currentEndpointTokens, minAnalyzeTraces, tokenizedTraces, position, currParams, toks, i) ==
  IF i > Len(toks) THEN <<>>
  ELSE LET validTok  == toks[i]
           nextPaths == getPaths(currentEndpointTokens, minAnalyzeTraces,
                          SelectSeq(tokenizedTraces,
                                    LAMBDA e : e.v[position + 1] = validTok),
                          position + 1, currParams)
       IN  PrefixAll(validTok, nextPaths)
             \o getPathsBranches(currentEndpointTokens, minAnalyzeTraces,
                                 tokenizedTraces, position, currParams, toks, i + 1)

getPaths(currentEndpointTokens, minAnalyzeTraces, tokenizedTraces, position, currParams) ==
  IF Length(tokenizedTraces) = 0 THEN <<>>
  ELSE IF position >= Len(tokenizedTraces[1].v) THEN <<>>
  ELSE LET toks == validTokens(currentEndpointTokens, minAnalyzeTraces,
                               tokenizedTraces, position)
       IN  IF Len(toks) = 0
           THEN PrefixAll("{param" \o NumStr(currParams + 1) \o "}",
                          getPaths(currentEndpointTokens, minAnalyzeTraces,
                                   tokenizedTraces, position + 1, currParams + 1))
           ELSE getPathsBranches(currentEndpointTokens, minAnalyzeTraces,
                                 tokenizedTraces, position, currParams, toks, 1)

(***************************************************************************)
(* The calls getPaths makes of itself: one [caller, callee] pair per call, *)
(* each end being the subset and the position it was called with.         *)
(***************************************************************************)
RECURSIVE getPathsCalls(_, _, _, _)
RECURSIVE getPathsCallsGrowing(_, _, _, _)

\* a search whose literal branch is handed its caller's subset twice over
getPathsCallsGrowing(currentEndpointTokens, minAnalyzeTraces, tokenizedTraces, position) ==
  IF Length(tokenizedTraces) = 0 THEN {}
  ELSE IF position >= Len(tokenizedTraces[1].v) THEN {}
  ELSE LET toks == validTokens(currentEndpointTokens, minAnalyzeTraces,
                               tokenizedTraces, position)
           callees == IF Len(toks) = 0 THEN {tokenizedTraces}
                      ELSE {tokenizedTraces \o tokenizedTraces}
       IN  UNION {
             {[caller |-> [subset |-> tokenizedTraces, position |-> position],
               callee |-> [subset |-> c, position |-> position + 1]]}
             \cup getPathsCallsGrowing(currentEndpointTokens, minAnalyzeTraces,
                                       c, position + 1) : c \in callees}

\* lines 56-61: a call on an empty subset or past the last token returns at
\* once; lines 80 and 88-92: otherwise it calls itself once at the next
\* position on its own subset, or once per valid token on those traces of
\* its subset that have the token at the position
getPathsCalls(currentEndpointTokens, minAnalyzeTraces, tokenizedTraces, position) ==
  IF Length(tokenizedTraces) = 0 THEN {}
  ELSE IF position >= Len(tokenizedTraces[1].v) THEN {}
  ELSE LET toks == validTokens(currentEndpointTokens, minAnalyzeTraces,
                               tokenizedTraces, position)
           callees == IF Len(toks) = 0 THEN {tokenizedTraces}
                      ELSE {SelectSeq(tokenizedTraces,
                                      LAMBDA e : e.v[position + 1] = toks[i]) :
                              i \in 1..Len(toks)}
       IN  UNION {
             {[caller |-> [subset |-> tokenizedTraces, position |-> position],
               callee |-> [subset |-> c, position |-> position + 1]]}
             \cup getPathsCalls(currentEndpointTokens, minAnalyzeTraces,
                                c, position + 1) : c \in callees}

(***************************************************************************)
(* fixEndpoint, from the list read from Redis to the list handed to        *)
(* updatePaths.  The result records whether the threshold return was       *)
(* taken, what getPaths produced, and newPaths.                            *)
(***************************************************************************)
tokenizeTraces(currentEndpointTokens, tracePaths) ==
  LET mapped == [i \in 1..Len(tracePaths) |->
                   [v |-> split(sanitizePath(tracePaths[i].v)), n |-> tracePaths[i].n]]
  IN  SelectSeq(mapped, LAMBDA t : Len(t.v) = Len(currentEndpointTokens))

\* fixEndpointPaths without the return below minAnalyzeTraces
fixEndpointPathsNoGate(endpointPath, tracePaths, minAnalyzeTraces) ==
  LET currentEndpointPath   == sanitizePath(endpointPath)
      currentEndpointTokens == split(currentEndpointPath)
      candidates            == getPaths(currentEndpointTokens, minAnalyzeTraces,
                                 tokenizeTraces(currentEndpointTokens, tracePaths), 0, 0)
  IN  [skipped    |-> FALSE,
       candidates |-> candidates,
       newPaths   |-> SelectSeq(candidates,
                        LAMBDA e : sanitizePath(e) # currentEndpointPath)]

\* fixEndpointPaths without the filter against the current template
fixEndpointPathsNoFilter(endpointPath, tracePaths, minAnalyzeTraces) ==
  LET currentEndpointTokens == split(sanitizePath(endpointPath))
      candidates            == getPaths(currentEndpointTokens, minAnalyzeTraces,
                                 tokenizeTraces(currentEndpointTokens, tracePaths), 0, 0)
  IN  IF Length(tracePaths) < minAnalyzeTraces
      THEN [skipped |-> TRUE, candidates |-> <<>>, newPaths |-> <<>>]
      ELSE [skipped |-> FALSE, candidates |-> candidates, newPaths |-> candidates]

fixEndpointPaths(endpointPath, tracePaths, minAnalyzeTraces) ==
  LET currentEndpointPath   == sanitizePath(endpointPath)
      currentEndpointTokens == split(currentEndpointPath)
      tokenizedTraces       == tokenizeTraces(currentEndpointTokens, tracePaths)
      candidates            == getPaths(currentEndpointTokens, minAnalyzeTraces,
                                        tokenizedTraces, 0, 0)
  IN  IF Length(tracePaths) < minAnalyzeTraces
      THEN [skipped |-> TRUE, candidates |-> <<>>, newPaths |-> <<>>]
      ELSE [skipped    |-> FALSE,
            candidates |-> candidates,
            newPaths   |-> SelectSeq(candidates,
                             LAMBDA e : sanitizePath(e) # currentEndpointPath)]


(***************************************************************************)
(* State                                                                   *)
(***************************************************************************)
VARIABLES
  apiEndpoint,      \* the ApiEndpoint table: uuid -> [path, userSet, isGraphQl]
  redisPaths,       \* the Redis lists endpointPaths:e#<uuid>, run-length encoded
  metloConfig,      \* the processed configuration the cached getters read
  pc,               \* where fixEndpoints is
  minAnalyzeTraces, \* fixEndpoints: const minAnalyzeTraces (0 until it is read)
  endpoints,        \* fixEndpoints: const endpoints (the rows of the query)
  idx,              \* fixEndpoints: the for loop's position in endpoints
  tracePaths,       \* fixEndpoint: const tracePaths
  returned,         \* what fixEndpoints returned: <<>> until it returns
  released,         \* queryRunner.release() was called
  completed,        \* the awaited steps of fixEndpoints that completed
  raised,           \* the awaited steps of fixEndpoints that threw
  fixLog,           \* one record per fixEndpoint call that ended
  updatePathsCalls, \* one record per call of updatePaths
  runs,             \* analyze: trace id -> the arguments and locals of its run
  redisTraces,      \* the Redis lists endpointTraces:e#<uuid>, run-length encoded
  pushLog,          \* per Redis key, every item pushed to it, in push order
  storeErrors,      \* the failed pushes the sample store logged
  db,               \* committed rows: endpoint risk and dates, data fields, alerts
  txn,              \* trace id -> the caller's transaction around its run
  webhooks,         \* trace id -> the dispatch of its alerts
  commits,          \* the trace ids whose transaction committed, in commit order
  configDb,         \* committed rows per context: config, authentication, block fields
  metloConfigCache, \* the NodeCache of index.ts: context -> its cachedMetloConfig entry
  populates,        \* call id -> one call of populateMetloConfig
  reads,            \* read id -> one call of a cached getter
  cli               \* runTestConfigs: its arguments, locals and what it printed

\* the state analyze and its caller work on
analyzeVars ==
  <<runs, redisTraces, pushLog, storeErrors, db, txn, webhooks, commits>>

vars ==
  <<apiEndpoint, redisPaths, metloConfig, pc, minAnalyzeTraces, endpoints, idx,
    tracePaths, returned, released, completed, raised, fixLog, updatePathsCalls,
    runs, redisTraces, pushLog, storeErrors, db, txn, webhooks, commits,
    configDb, metloConfigCache, populates, reads, cli>>

\* the state of the configuration service
configVars ==
  <<configDb, metloConfigCache, populates, reads>>

\* the state of the test runner of the command line
cliVars ==
  <<cli>>

\* An optional value is a sequence of at most one element: <<>> is undefined
\* (a field that is not set, a function that has not returned), <<x>> is x.
NoValue == <<>>

\* conf.minAnalyzeTraces ?? 100
DEFAULT_MIN_ANALYZE_TRACES == 100

getMinAnalyzeTracesCached(conf) ==
  IF conf.minAnalyzeTraces = NoValue
  THEN DEFAULT_MIN_ANALYZE_TRACES
  ELSE conf.minAnalyzeTraces[1]

\* RedisClient.lrange(ctx, key, 0, -1) || []: a key that expired reads as []
lrange(uuid) ==
  IF uuid \in DOMAIN redisPaths THEN redisPaths[uuid] ELSE <<>>

\* a catch block that reports success
catchReturnTrue == TRUE

\* the value of the catch block of fixEndpoints
catchReturn == FALSE

\* the value fixEndpoints returns after the loop
loopReturn == TRUE

(***************************************************************************)
(* Bounds and input pools                                                  *)
(***************************************************************************)
\* most runs of equal paths in one sampled list
MaxRuns == 3

\* most runs in a list of the worked example of the specification
MaxExampleRuns == 5

\* most runs in a list whose counts straddle the thresholds
MaxThresholdRuns == 2

Uuids == {"e1", "e2"}

RunsOver(paths, reps) ==
  {[v |-> p, n |-> k] : p \in paths, k \in reps}

ListsOver(paths, reps, maxRuns) ==
  UNION {[1..len -> RunsOver(paths, reps)] : len \in 0..maxRuns}

\* no configuration is stored, cached, written or read
NoConfig ==
  /\ configDb = <<>>
  /\ metloConfigCache = <<>>
  /\ populates = <<>>
  /\ reads = <<>>

\* the test runner was not started
NoTests ==
  cli = <<>>

\* no trace is being analyzed and nothing was persisted
NoAnalysis ==
  /\ runs = <<>>
  /\ redisTraces = <<>>
  /\ pushLog = <<>>
  /\ storeErrors = <<>>
  /\ db = [endpoints |-> <<>>, dataFields |-> {}, alerts |-> <<>>]
  /\ txn = <<>>
  /\ webhooks = <<>>
  /\ commits = <<>>

\* the state before a sweep starts, for the table, lists and configuration given
InitWith(table, lists, conf) ==
  /\ NoAnalysis
  /\ NoConfig
  /\ NoTests
  /\ apiEndpoint = table
  /\ redisPaths = lists
  /\ metloConfig = conf
  /\ pc = "connect"
  /\ minAnalyzeTraces = 0
  /\ endpoints = <<>>
  /\ idx = 1
  /\ tracePaths = <<>>
  /\ returned = NoValue
  /\ released = FALSE
  /\ completed = {}
  /\ raised = {}
  /\ fixLog = <<>>
  /\ updatePathsCalls = <<>>

\* the sweep among users and failing collaborators: one or two endpoints
SweepTemplates == {"/users/{param1}", "/{param1}/list"}

SweepLists ==
  { <<>>,
    <<[v |-> "/users/create", n |-> 2], [v |-> "/users/7", n |-> 1]>>,
    <<[v |-> "/users/7", n |-> 2], [v |-> "/users/8", n |-> 2]>>,
    <<[v |-> "/orders/list", n |-> 100]>> }

Init ==
  \E ids \in (SUBSET Uuids) \ {{}} :
    \E table \in [ids -> [path : SweepTemplates, userSet : BOOLEAN, isGraphQl : BOOLEAN]] :
      \E lists \in [ids -> SweepLists] :
        \E m \in {NoValue, <<2>>} :
          InitWith(table, lists, [minAnalyzeTraces |-> m])

\* One eligible endpoint, its sampled list and the configured minimum
InitOne(template, list, m) ==
  InitWith([u \in {"e1"} |-> [path |-> template, userSet |-> FALSE, isGraphQl |-> FALSE]],
           [u \in {"e1"} |-> list],
           [minAnalyzeTraces |-> <<m>>])

\* inference over templates and samples of varied shape
InferTemplates == {"/users/{param1}", "/{param1}/{param2}", "/users/list", "{param1}"}

InferPaths ==
  {"/users/create", "/users/12", "/users/list", "/orders/list", "/users", "users/v1/"}

InferReps == {1, 2}

InferMins == {1, 3}

InitInfer ==
  \E template \in InferTemplates :
    \E list \in ListsOver(InferPaths, InferReps, MaxRuns) :
      \E m \in InferMins :
        InitOne(template, list, m)

\* inference over samples whose counts sit on both sides of each threshold
ThresholdTemplates == {"/{param1}/{param2}"}

ThresholdPaths == {"/a/x", "/b/x", "/a/1"}

ThresholdReps == {3, 7, 500, 501, 1200, 4600}

ThresholdMins == {1, 11}

InitThreshold ==
  \E template \in ThresholdTemplates :
    \E list \in ListsOver(ThresholdPaths, ThresholdReps, MaxThresholdRuns) :
      \E m \in ThresholdMins :
        InitOne(template, list, m)

\* the worked example: template users/{param1}, minAnalyzeTraces 2, ten
\* samples under users/, create four times, every other value at most twice
ExampleOthers == {"/users/12", "/users/ab", "/users/x7", "/users/b_c"}

ExampleRuns ==
  RunsOver({"/users/create"}, {4}) \cup RunsOver(ExampleOthers, {1, 2})

ExampleCase(list) ==
  /\ Length(list) = 10
  /\ CountOf(list, "/users/create", 1) = 4
  /\ \A p \in ExampleOthers : CountOf(list, p, 1) <= 2

InitExample ==
  \E list \in UNION {[1..len -> ExampleRuns] : len \in 0..MaxExampleRuns} :
    /\ ExampleCase(list)
    /\ InitOne("users/{param1}", list, 2)

(***************************************************************************)
(* fixEndpoints, one action per awaited step                               *)
(***************************************************************************)
\* the catch block followed by the way to finally
Catch(step) ==
  /\ raised' = raised \cup {step}
  /\ returned' = <<catchReturn>>
  /\ pc' = "release"

\* await queryRunner.connect()
Connect ==
  /\ pc = "connect"
  /\ pc' = "getConfig"
  /\ completed' = completed \cup {"connect"}
  /\ UNCHANGED <<apiEndpoint, redisPaths, metloConfig, minAnalyzeTraces, endpoints,
                 idx, tracePaths, returned, released, raised, fixLog, updatePathsCalls>>
  /\ UNCHANGED <<analyzeVars, configVars, cliVars>>

ConnectThrows ==
  /\ pc = "connect"
  /\ Catch("connect")
  /\ UNCHANGED <<apiEndpoint, redisPaths, metloConfig, minAnalyzeTraces, endpoints,
                 idx, tracePaths, released, completed, fixLog, updatePathsCalls>>
  /\ UNCHANGED <<analyzeVars, configVars, cliVars>>

\* const minAnalyzeTraces = await getMinAnalyzeTracesCached(ctx)
GetMinAnalyzeTraces ==
  /\ pc = "getConfig"
  /\ minAnalyzeTraces' = getMinAnalyzeTracesCached(metloConfig)
  /\ pc' = "query"
  /\ completed' = completed \cup {"config"}
  /\ UNCHANGED <<apiEndpoint, redisPaths, metloConfig, endpoints, idx, tracePaths,
                 returned, released, raised, fixLog, updatePathsCalls>>
  /\ UNCHANGED <<analyzeVars, configVars, cliVars>>

GetMinAnalyzeTracesThrows ==
  /\ pc = "getConfig"
  /\ Catch("config")
  /\ UNCHANGED <<apiEndpoint, redisPaths, metloConfig, minAnalyzeTraces, endpoints,
                 idx, tracePaths, released, completed, fixLog, updatePathsCalls>>
  /\ UNCHANGED <<analyzeVars, configVars, cliVars>>

\* the rows of: select uuid, path, "userSet" where "userSet" = False and
\* "isGraphQl" = False; no ORDER BY, so in any order
QueryRows(order) ==
  /\ Len(order) = Cardinality({u \in DOMAIN apiEndpoint :
                                 ~apiEndpoint[u].userSet /\ ~apiEndpoint[u].isGraphQl})
  /\ \A i \in 1..Len(order) :
        /\ order[i] \in DOMAIN apiEndpoint
        /\ ~apiEndpoint[order[i]].userSet
        /\ ~apiEndpoint[order[i]].isGraphQl
  /\ \A i, j \in 1..Len(order) : i # j => order[i] # order[j]

QueryEndpoints ==
  /\ pc = "query"
  /\ \E k \in 0..Cardinality(Uuids) :
       \E order \in [1..k -> Uuids] :
         /\ QueryRows(order)
         /\ endpoints' = [i \in 1..k |->
                            [uuid    |-> order[i],
                             path    |-> apiEndpoint[order[i]].path,
                             userSet |-> apiEndpoint[order[i]].userSet]]
  /\ idx' = 1
  /\ pc' = "loop"
  /\ completed' = completed \cup {"query"}
  /\ UNCHANGED <<apiEndpoint, redisPaths, metloConfig, minAnalyzeTraces, tracePaths,
                 returned, released, raised, fixLog, updatePathsCalls>>
  /\ UNCHANGED <<analyzeVars, configVars, cliVars>>

QueryEndpointsThrows ==
  /\ pc = "query"
  /\ Catch("query")
  /\ UNCHANGED <<apiEndpoint, redisPaths, metloConfig, minAnalyzeTraces, endpoints,
                 idx, tracePaths, released, completed, fixLog, updatePathsCalls>>
  /\ UNCHANGED <<analyzeVars, configVars, cliVars>>


\* the arguments of updatePaths(ctx, newPaths, endpoint.uuid, false, true)
updatePathsArgs(uuid, newPaths) ==
  [endpointId |-> uuid, providedPaths |-> newPaths,
   deleteOriginal |-> FALSE, discovered |-> TRUE]

\* the call as the table stands when it is made, and whether it completed
updatePathsCall(uuid, newPaths, ok) ==
  [args      |-> updatePathsArgs(uuid, newPaths),
   userSet   |-> apiEndpoint[uuid].userSet,
   isGraphQl |-> apiEndpoint[uuid].isGraphQl,
   ok        |-> ok]

\* what one ended fixEndpoint call read, computed and did
fixLogEntry(endpoint, read, paths, res, called, threw) ==
  [uuid             |-> endpoint.uuid,
   path             |-> endpoint.path,
   read             |-> read,
   tracePaths       |-> paths,
   minAnalyzeTraces |-> minAnalyzeTraces,
   skipped          |-> res.skipped,
   candidates       |-> res.candidates,
   newPaths         |-> res.newPaths,
   called           |-> called,
   threw            |-> threw]

NoResult ==
  [skipped |-> FALSE, candidates |-> <<>>, newPaths |-> <<>>]

\* for (const endpoint of endpoints): if (!endpoint.userSet), enter fixEndpoint
\* and await RedisClient.lrange
FixEndpointRead ==
  /\ pc = "loop"
  /\ idx <= Len(endpoints)
  /\ IF endpoints[idx].userSet
     THEN /\ idx' = idx + 1
          /\ UNCHANGED <<pc, tracePaths>>
     ELSE /\ tracePaths' = lrange(endpoints[idx].uuid)
          /\ pc' = "fix"
          /\ UNCHANGED idx
  /\ UNCHANGED <<apiEndpoint, redisPaths, metloConfig, minAnalyzeTraces, endpoints,
                 returned, released, completed, raised, fixLog, updatePathsCalls>>
  /\ UNCHANGED <<analyzeVars, configVars, cliVars>>

FixEndpointReadThrows ==
  /\ pc = "loop"
  /\ idx <= Len(endpoints)
  /\ ~endpoints[idx].userSet
  /\ fixLog' = Append(fixLog,
                 fixLogEntry(endpoints[idx], FALSE, <<>>, NoResult, FALSE, TRUE))
  /\ Catch("fixEndpoint")
  /\ UNCHANGED <<apiEndpoint, redisPaths, metloConfig, minAnalyzeTraces, endpoints,
                 idx, tracePaths, released, completed, updatePathsCalls>>
  /\ UNCHANGED <<analyzeVars, configVars, cliVars>>

\* the rest of fixEndpoint when updatePaths, if called, completes
FixEndpoint ==
  /\ pc = "fix"
  /\ LET endpoint == endpoints[idx]
         res == fixEndpointPaths(endpoint.path, tracePaths, minAnalyzeTraces)
         call == Len(res.newPaths) > 0
     IN  /\ updatePathsCalls' =
              IF call
              THEN Append(updatePathsCalls,
                          updatePathsCall(endpoint.uuid, res.newPaths, TRUE))
              ELSE updatePathsCalls
         /\ fixLog' = Append(fixLog,
                        fixLogEntry(endpoint, TRUE, tracePaths, res, call, FALSE))
  /\ idx' = idx + 1
  /\ pc' = "loop"
  /\ UNCHANGED <<apiEndpoint, redisPaths, metloConfig, minAnalyzeTraces, endpoints,
                 tracePaths, returned, released, completed, raised>>
  /\ UNCHANGED <<analyzeVars, configVars, cliVars>>

\* the rest of fixEndpoint when updatePaths is called and throws
FixEndpointUpdateThrows ==
  /\ pc = "fix"
  /\ LET endpoint == endpoints[idx]
         res == fixEndpointPaths(endpoint.path, tracePaths, minAnalyzeTraces)
     IN  /\ Len(res.newPaths) > 0
         /\ updatePathsCalls' = Append(updatePathsCalls,
                                  updatePathsCall(endpoint.uuid, res.newPaths, FALSE))
         /\ fixLog' = Append(fixLog,
                        fixLogEntry(endpoint, TRUE, tracePaths, res, TRUE, TRUE))
  /\ Catch("fixEndpoint")
  /\ UNCHANGED <<apiEndpoint, redisPaths, metloConfig, minAnalyzeTraces, endpoints,
                 idx, tracePaths, released, completed>>
  /\ UNCHANGED <<analyzeVars, configVars, cliVars>>

\* the loop is over: return true
LoopReturn ==
  /\ pc = "loop"
  /\ idx > Len(endpoints)
  /\ returned' = <<loopReturn>>
  /\ pc' = "release"
  /\ UNCHANGED <<apiEndpoint, redisPaths, metloConfig, minAnalyzeTraces, endpoints,
                 idx, tracePaths, released, completed, raised, fixLog, updatePathsCalls>>
  /\ UNCHANGED <<analyzeVars, configVars, cliVars>>

\* finally: await queryRunner.release(), which is taken not to throw (as is
\* AppDataSource.createQueryRunner() before the try)
Release ==
  /\ pc = "release"
  /\ released' = TRUE
  /\ pc' = "done"
  /\ UNCHANGED <<apiEndpoint, redisPaths, metloConfig, minAnalyzeTraces, endpoints,
                 idx, tracePaths, returned, completed, raised, fixLog, updatePathsCalls>>
  /\ UNCHANGED <<analyzeVars, configVars, cliVars>>

(***************************************************************************)
(* The environment: a user confirms an endpoint's template (userSet)       *)
(***************************************************************************)
MarkUserSet ==
  /\ \E u \in DOMAIN apiEndpoint :
        /\ ~apiEndpoint[u].userSet
        /\ apiEndpoint' = [apiEndpoint EXCEPT ![u].userSet = TRUE]
  /\ UNCHANGED <<redisPaths, metloConfig, pc, minAnalyzeTraces, endpoints, idx,
                 tracePaths, returned, released, completed, raised, fixLog,
                 updatePathsCalls>>
  /\ UNCHANGED <<analyzeVars, configVars, cliVars>>

(***************************************************************************)
(* Specifications                                                          *)
(***************************************************************************)
\* the steps of a sweep in which no collaborator throws
SweepStep ==
  \/ Connect
  \/ GetMinAnalyzeTraces
  \/ QueryEndpoints
  \/ FixEndpointRead
  \/ FixEndpoint
  \/ LoopReturn
  \/ Release

SweepThrows ==
  \/ ConnectThrows
  \/ GetMinAnalyzeTracesThrows
  \/ QueryEndpointsThrows
  \/ FixEndpointReadThrows
  \/ FixEndpointUpdateThrows

Next ==
  \/ SweepStep
  \/ SweepThrows
  \/ MarkUserSet

Spec ==
  Init /\ [][Next]_vars

\* a sweep over one endpoint with no failing collaborator
NextInfer ==
  SweepStep

SpecInfer ==
  InitInfer /\ [][NextInfer]_vars

\* most runs in a list sampled for a template of two or three tokens
MaxSearchRuns == 2

\* templates of two and three tokens, one carrying numbers of its own
SearchTemplates == {"/{param1}/{param2}", "/api/{param5}/{param2}"}

SearchPaths ==
  {"/users/12", "/users/list", "/orders/12", "/api/v/7", "/api/v/x", "/api/w/7"}

SearchReps == {1, 2}

SearchMins == {1, 3}

InitSearch ==
  \E template \in SearchTemplates :
    \E list \in ListsOver(SearchPaths, SearchReps, MaxSearchRuns) :
      \E m \in SearchMins :
        InitOne(template, list, m)

\* the candidate search over these templates
SpecSearch ==
  InitSearch /\ [][NextInfer]_vars

SpecThreshold ==
  InitThreshold /\ [][NextInfer]_vars

SpecExample ==
  InitExample /\ [][NextInfer]_vars

(***************************************************************************)
(* The sample store: RedisClient.pushToListPipeline(ctx, key, items,       *)
(* maxItems, expireIn) appends the items to the list at the key, trims the *)
(* list to its most recent maxItems entries and refreshes the key's time   *)
(* to live, as one atomic operation.  A push that fails is logged by the   *)
(* store and changes nothing; the call still returns to its caller.        *)
(***************************************************************************)
\* the elements of a run-length encoded list, one by one
RECURSIVE Expand(_)
Expand(list) ==
  IF Len(list) = 0 THEN <<>>
  ELSE [i \in 1..list[1].n |-> list[1].v] \o Expand(Tail(list))

\* the list with one item appended
pushItem(list, item) ==
  IF Len(list) > 0 /\ list[Len(list)].v = item
  THEN [list EXCEPT ![Len(list)].n = @ + 1]
  ELSE Append(list, [v |-> item, n |-> 1])

RECURSIVE pushItems(_, _)
pushItems(list, items) ==
  IF Len(items) = 0 THEN list
  ELSE pushItems(pushItem(list, Head(items)), Tail(items))

\* the list without its k oldest elements
RECURSIVE dropOldest(_, _)
dropOldest(list, k) ==
  IF k <= 0 \/ Len(list) = 0 THEN list
  ELSE IF list[1].n <= k THEN dropOldest(Tail(list), k - list[1].n)
  ELSE [list EXCEPT ![1].n = @ - k]

\* a store that trims the newest items and keeps the oldest maxItems
pushToListPipelineKeepOldest(list, items, maxItems) ==
  LET appended == Expand(pushItems(list, items))
      kept == SubSeq(appended, 1, IF Len(appended) < maxItems
                                  THEN Len(appended) ELSE maxItems)
  IN  pushItems(<<>>, kept)

\* a store that appends and never trims
pushToListPipelineNoTrim(list, items, maxItems) ==
  pushItems(list, items)

\* the list at a key after pushToListPipeline(ctx, key, items, maxItems, _)
pushToListPipeline(list, items, maxItems) ==
  LET appended == pushItems(list, items)
  IN  dropOldest(appended, Length(appended) - maxItems)

\* the list at a key of a store, [] when the key is absent
listAt(store, key) ==
  IF key \in DOMAIN store THEN store[key] ELSE <<>>

\* the store with list as the list at key
withList(store, key, list) ==
  [k \in DOMAIN store \cup {key} |-> IF k = key THEN list ELSE store[k]]

\* how many items the trace list and the path list of an endpoint retain
\* (TRACE_IN_MEM_RETENTION_COUNT and TRACE_PATH_IN_MEM_RETENTION_COUNT, kept
\* small here)
TRACE_IN_MEM_RETENTION_COUNT == 2

TRACE_PATH_IN_MEM_RETENTION_COUNT == 3

(***************************************************************************)
(* analyze: the values it computes                                         *)
(*                                                                         *)
(* A request or response body is a string or an array of strings:          *)
(* [isArray |-> FALSE, text |-> s, items |-> <<>>] is the string s and     *)
(* [isArray |-> TRUE, text |-> "", items |-> a] the array a.  A header or  *)
(* a request parameter is [name |-> n, value |-> v].                       *)
(***************************************************************************)
StringBody(s) ==
  [isArray |-> FALSE, text |-> s, items |-> <<>>]

ArrayBody(a) ==
  [isArray |-> TRUE, text |-> "", items |-> a]

\* (e.name || "").split("[")[0]
RECURSIVE paramNameFrom(_, _)
paramNameFrom(name, i) ==
  IF i > Len(name) \/ Ch(name, i) = "[" THEN ""
  ELSE Ch(name, i) \o paramNameFrom(name, i + 1)

paramName(name) ==
  paramNameFrom(name, 1)

\* JSON.stringify of an array of strings free of quotes and backslashes
RECURSIVE stringifyItems(_, _)
stringifyItems(items, i) ==
  IF i > Len(items) THEN ""
  ELSE (IF i > 1 THEN "," ELSE "") \o "\"" \o items[i] \o "\""
         \o stringifyItems(items, i + 1)

stringifyArray(items) ==
  "[" \o stringifyItems(items, 1) \o "]"

\* if (Array.isArray(body)) body = JSON.stringify(body)
stringifyBody(body) ==
  IF body.isArray THEN StringBody(stringifyArray(body.items)) ELSE body

\* the trace after the parameter names and the bodies were rewritten in place
normalizeTrace(trace) ==
  [trace EXCEPT
     !.requestParameters =
        [i \in 1..Len(@) |-> [name |-> paramName(@[i].name), value |-> @[i].value]],
     !.requestBody = stringifyBody(@),
     !.responseBody = stringifyBody(@)]

\* endpointUpdateDates(trace.createdAt, apiEndpoint): firstDetected moves back
\* to and lastActive forward to the time of the trace
endpointUpdateDates(createdAt, endpoint) ==
  [endpoint EXCEPT
     !.firstDetected = IF createdAt < @ THEN createdAt ELSE @,
     !.lastActive    = IF createdAt > @ THEN createdAt ELSE @]

\* conf.globalFullTraceCapture ?? false
getGlobalFullTraceCaptureCached(conf) ==
  IF conf.globalFullTraceCapture = NoValue
  THEN FALSE
  ELSE conf.globalFullTraceCapture[1]

\* a decision that redacts unless both capture flags are set
redactUnlessBoth(globalFullTraceCapture, fullTraceCaptureEnabled) ==
  ~(globalFullTraceCapture /\ fullTraceCaptureEnabled)

\* const redact = !(globalFullTraceCapture || apiEndpoint.fullTraceCaptureEnabled)
redact(globalFullTraceCapture, fullTraceCaptureEnabled) ==
  ~(globalFullTraceCapture \/ fullTraceCaptureEnabled)

\* the values the data classes recognise as sensitive
SensitiveValues == {"4111", "555-12"}

\* text holds a sensitive value somewhere
isSensitive(text) ==
  \E v \in SensitiveValues :
    \E i \in 1..Len(text) :
      i + Len(v) - 1 <= Len(text) /\ SubSeq(text, i, i + Len(v) - 1) = v

\* getSensitiveDataMap(dataClasses, trace, path, mapDataFields): the places of
\* the trace whose content holds sensitive data
getSensitiveDataMap(trace) ==
  {[section |-> "reqQuery", name |-> trace.requestParameters[i].name] :
     i \in {j \in 1..Len(trace.requestParameters) :
              isSensitive(trace.requestParameters[j].value)}}
  \cup
  {[section |-> "reqHeaders", name |-> trace.requestHeaders[i].name] :
     i \in {j \in 1..Len(trace.requestHeaders) :
              isSensitive(trace.requestHeaders[j].value)}}
  \cup
  {[section |-> "resHeaders", name |-> trace.responseHeaders[i].name] :
     i \in {j \in 1..Len(trace.responseHeaders) :
              isSensitive(trace.responseHeaders[j].value)}}
  \cup
  (IF isSensitive(trace.requestBody.text)
   THEN {[section |-> "reqBody", name |-> ""]} ELSE {})
  \cup
  (IF isSensitive(trace.responseBody.text)
   THEN {[section |-> "resBody", name |-> ""]} ELSE {})

\* if (redact) { ... }: the five fields cleared
clearContent(filteredApiTrace) ==
  [filteredApiTrace EXCEPT
     !.redacted = TRUE,
     !.requestParameters = <<>>,
     !.requestHeaders = <<>>,
     !.responseHeaders = <<>>,
     !.requestBody = StringBody(""),
     !.responseBody = StringBody("")]

\* let filteredApiTrace = {...trace, uuid, redacted: false, apiEndpointUuid}
filteredApiTraceOf(trace, traceUUID, apiEndpointUuid) ==
  [uuid              |-> traceUUID,
   apiEndpointUuid   |-> apiEndpointUuid,
   redacted          |-> FALSE,
   path              |-> trace.path,
   createdAt         |-> trace.createdAt,
   requestParameters |-> trace.requestParameters,
   requestHeaders    |-> trace.requestHeaders,
   responseHeaders   |-> trace.responseHeaders,
   requestBody       |-> trace.requestBody,
   responseBody      |-> trace.responseBody]

\* the object {...filteredApiTrace, sensitiveDataMap} of a trace and its map
withSensitiveDataMap(filteredApiTrace, sensitiveDataMap) ==
  [uuid              |-> filteredApiTrace.uuid,
   apiEndpointUuid   |-> filteredApiTrace.apiEndpointUuid,
   redacted          |-> filteredApiTrace.redacted,
   path              |-> filteredApiTrace.path,
   createdAt         |-> filteredApiTrace.createdAt,
   requestParameters |-> filteredApiTrace.requestParameters,
   requestHeaders    |-> filteredApiTrace.requestHeaders,
   responseHeaders   |-> filteredApiTrace.responseHeaders,
   requestBody       |-> filteredApiTrace.requestBody,
   responseBody      |-> filteredApiTrace.responseBody,
   sensitiveDataMap  |-> sensitiveDataMap]

\* an entry whose map is computed from the content left after the clearing
traceEntryMapAfterClear(trace, traceUUID, apiEndpointUuid, redacted) ==
  LET filteredApiTrace == filteredApiTraceOf(trace, traceUUID, apiEndpointUuid)
      stored == IF redacted THEN clearContent(filteredApiTrace) ELSE filteredApiTrace
  IN  withSensitiveDataMap(stored, getSensitiveDataMap(stored))

\* the entry pushed to endpointTraces:e#<uuid>: the map is computed first, from
\* the full content, and the content is cleared afterwards
traceEntry(trace, traceUUID, apiEndpointUuid, redacted) ==
  LET filteredApiTrace == filteredApiTraceOf(trace, traceUUID, apiEndpointUuid)
      sensitiveDataMap == getSensitiveDataMap(filteredApiTrace)
      stored == IF redacted THEN clearContent(filteredApiTrace) ELSE filteredApiTrace
  IN  withSensitiveDataMap(stored, sensitiveDataMap)


\* shouldUpdateEndpoint(prevRiskScore, prevLastActive, apiEndpoint)
shouldUpdateEndpoint(prevRiskScore, prevLastActive, endpoint) ==
  \/ prevRiskScore # endpoint.riskScore
  \/ prevLastActive # endpoint.lastActive

\* rows is the Alert table, a sequence of [key, trace]; an insert that raises
\* on a key already stored
insertAlertsPlain(rows, alerts) ==
  [rows  |-> rows \o alerts,
   error |-> \E i \in 1..Len(alerts) :
               \/ \E j \in 1..Len(rows) : rows[j].key = alerts[i].key
               \/ \E j \in 1..(i - 1) : alerts[j].key = alerts[i].key]

\* insertValuesBuilder(ctx, queryRunner, Alert, alerts).orIgnore().execute():
\* INSERT ... ON CONFLICT DO NOTHING, a row whose key is stored is skipped
RECURSIVE insertAlertsOrIgnoreFrom(_, _, _)
insertAlertsOrIgnoreFrom(rows, alerts, i) ==
  IF i > Len(alerts) THEN rows
  ELSE insertAlertsOrIgnoreFrom(
         IF \E j \in 1..Len(rows) : rows[j].key = alerts[i].key
         THEN rows ELSE Append(rows, alerts[i]),
         alerts, i + 1)

insertAlertsOrIgnore(rows, alerts) ==
  [rows |-> insertAlertsOrIgnoreFrom(rows, alerts, 1), error |-> FALSE]

(***************************************************************************)
(* analyze, one action per awaited step.  runs[t] holds the arguments and  *)
(* the locals of the run that analyzes trace t; its caller opened the      *)
(* transaction txn[t] on the query runner it passes in, and commits it     *)
(* when analyze returns or rolls it back when analyze throws.              *)
(***************************************************************************)
\* the variables of the sweep that analyze never touches
sweepLocals ==
  <<apiEndpoint, pc, minAnalyzeTraces, endpoints, idx, tracePaths, returned,
    released, completed, raised, fixLog, updatePathsCalls>>

\* `endpointTraces:e#${apiEndpoint.uuid}`
endpointTraceKey(uuid) ==
  "endpointTraces:e#" \o uuid

\* `endpointPaths:e#${apiEndpoint.uuid}`
endpointPathKey(uuid) ==
  "endpointPaths:e#" \o uuid

\* an order in which the webhooks are sent before the alerts are inserted
nextStageWebhookFirst(stage, userSet) ==
  CASE stage = "start"            -> "redact"
    [] stage = "redact"           -> "specDiff"
    [] stage = "specDiff"         -> "dataFieldAlerts"
    [] stage = "dataFieldAlerts"  -> "pushTrace"
    [] stage = "pushTrace"        -> IF userSet THEN "updateEndpoint" ELSE "pushPath"
    [] stage = "pushPath"         -> "updateEndpoint"
    [] stage = "updateEndpoint"   -> "updateDataFields"
    [] stage = "updateDataFields" -> "webhook"
    [] stage = "webhook"          -> "insertAlerts"
    [] stage = "insertAlerts"     -> "done"

\* an order in which the path is pushed whether or not the endpoint is userSet
nextStageAlwaysPath(stage, userSet) ==
  CASE stage = "start"            -> "redact"
    [] stage = "redact"           -> "specDiff"
    [] stage = "specDiff"         -> "dataFieldAlerts"
    [] stage = "dataFieldAlerts"  -> "pushTrace"
    [] stage = "pushTrace"        -> "pushPath"
    [] stage = "pushPath"         -> "updateEndpoint"
    [] stage = "updateEndpoint"   -> "updateDataFields"
    [] stage = "updateDataFields" -> "insertAlerts"
    [] stage = "insertAlerts"     -> "webhook"
    [] stage = "webhook"          -> "done"

\* an order in which the endpoint is updated before the samples are pushed
nextStageUpdateFirst(stage, userSet) ==
  CASE stage = "start"            -> "redact"
    [] stage = "redact"           -> "specDiff"
    [] stage = "specDiff"         -> "dataFieldAlerts"
    [] stage = "dataFieldAlerts"  -> "updateEndpoint"
    [] stage = "updateEndpoint"   -> "pushTrace"
    [] stage = "pushTrace"        -> IF userSet THEN "updateDataFields" ELSE "pushPath"
    [] stage = "pushPath"         -> "updateDataFields"
    [] stage = "updateDataFields" -> "insertAlerts"
    [] stage = "insertAlerts"     -> "webhook"
    [] stage = "webhook"          -> "done"

\* the awaited step that follows a step of analyze
nextStage(stage, userSet) ==
  CASE stage = "start"            -> "redact"
    [] stage = "redact"           -> "specDiff"
    [] stage = "specDiff"         -> "dataFieldAlerts"
    [] stage = "dataFieldAlerts"  -> "pushTrace"
    [] stage = "pushTrace"        -> IF userSet THEN "updateEndpoint" ELSE "pushPath"
    [] stage = "pushPath"         -> "updateEndpoint"
    [] stage = "updateEndpoint"   -> "updateDataFields"
    [] stage = "updateDataFields" -> "insertAlerts"
    [] stage = "insertAlerts"     -> "webhook"
    [] stage = "webhook"          -> "done"

\* a store whose failed push rejects the call
pushReturnsThrowing(ok) ==
  ok

\* whether pushToListPipeline returns to its caller: a push that fails is
\* logged by the store and the call returns all the same
pushReturns(ok) ==
  TRUE

\* an analyze that catches what a statement on the query runner throws and
\* goes on
afterThrowContinue(run) ==
  IF run.pc \in {"updateEndpoint", "updateDataFields", "insertAlerts"}
  THEN [run EXCEPT !.pc = nextStage(run.pc, run.apiEndpoint.userSet),
                   !.stages = Append(@, run.pc)]
  ELSE [run EXCEPT !.pc = "failed", !.threw = run.pc]

\* analyze has no try: what an awaited collaborator throws ends the run and
\* reaches the caller
afterThrow(run) ==
  [run EXCEPT !.pc = "failed", !.threw = run.pc]

\* the run after its step at run.pc completed
advance(run) ==
  [run EXCEPT !.pc = nextStage(run.pc, run.apiEndpoint.userSet),
              !.stages = Append(@, run.pc)]

\* what the run has done when its awaited step returned and it ran on to
\* the next await, in the order of the statements
stageWork(stage, newEndpoint, redacts) ==
  CASE stage = "start" ->
         <<"dates", "normalize", "dataClasses", "dataFields">>
    [] stage = "dataFieldAlerts" ->
         <<"dataFieldAlerts">>
         \o (IF newEndpoint THEN <<"newEndpointAlert">> ELSE <<>>)
         \o <<"sensitiveDataMap">>
         \o (IF redacts THEN <<"clearing">> ELSE <<>>)
    [] OTHER -> <<stage>>

\* the alerts a collaborator returns for trace t, one per key
alertsOf(keys, t) ==
  [i \in 1..Len(keys) |-> [key |-> keys[i], trace |-> t]]

\* createNewEndpointAlert(apiEndpoint, trace.createdAt)
createNewEndpointAlert(endpoint, t) ==
  <<[key |-> "new_endpoint:" \o endpoint.uuid, trace |-> t]>>

\* lines 281-310: the snapshot, the dates, the rewriting of the trace, the
\* data classes and the data fields (findDataFieldsToSave also leaves the
\* risk score it computed on the endpoint)
AnalyzeStart(t) ==
  /\ runs[t].pc = "start"
  /\ LET run == runs[t]
         dated == endpointUpdateDates(run.trace.createdAt, run.apiEndpoint)
     IN  runs' = [runs EXCEPT ![t] = advance(
           [run EXCEPT
              !.prevRiskScore = run.apiEndpoint.riskScore,
              !.prevLastActive = run.apiEndpoint.lastActive,
              !.trace = normalizeTrace(@),
              !.dataFields = IF run.skipDataFields THEN <<>> ELSE run.found.dataFields,
              !.apiEndpoint =
                 IF run.skipDataFields THEN dated
                 ELSE [dated EXCEPT !.riskScore = run.found.riskScore]])]
  /\ UNCHANGED <<redisPaths, metloConfig, redisTraces, pushLog, storeErrors, db,
                 txn, webhooks, commits>>
  /\ UNCHANGED <<sweepLocals, configVars, cliVars>>

\* lines 313-316
AnalyzeRedact(t) ==
  /\ runs[t].pc = "redact"
  /\ LET globalFullTraceCapture == getGlobalFullTraceCaptureCached(metloConfig)
     IN  runs' = [runs EXCEPT ![t] = advance(
           [runs[t] EXCEPT
              !.redact = redact(globalFullTraceCapture,
                                runs[t].apiEndpoint.fullTraceCaptureEnabled)])]
  /\ UNCHANGED <<redisPaths, metloConfig, redisTraces, pushLog, storeErrors, db,
                 txn, webhooks, commits>>
  /\ UNCHANGED <<sweepLocals, configVars, cliVars>>

\* lines 321-327
AnalyzeSpecDiff(t) ==
  /\ runs[t].pc = "specDiff"
  /\ runs' = [runs EXCEPT ![t] = advance(
       [runs[t] EXCEPT
          !.alerts = alertsOf(runs[t].found.specDiff, t),
          !.redactArgs = Append(@, [to |-> "findOpenApiSpecDiff",
                                    redact |-> runs[t].redact])])]
  /\ UNCHANGED <<redisPaths, metloConfig, redisTraces, pushLog, storeErrors, db,
                 txn, webhooks, commits>>
  /\ UNCHANGED <<sweepLocals, configVars, cliVars>>

\* lines 332-378: the data-field alerts (none without data fields), the
\* new-endpoint alert, the sensitive-data map and the clearing
AnalyzeDataFieldAlerts(t) ==
  /\ runs[t].pc = "dataFieldAlerts"
  /\ LET run == runs[t]
         dataFieldAlerts ==
           IF Len(run.dataFields) = 0 THEN <<>>
           ELSE alertsOf(run.found.dataFieldAlerts, t)
         newEndpointAlert ==
           IF run.newEndpoint THEN createNewEndpointAlert(run.apiEndpoint, t)
           ELSE <<>>
     IN  runs' = [runs EXCEPT ![t] = advance(
           [run EXCEPT
              !.alerts = (@ \o dataFieldAlerts) \o newEndpointAlert,
              !.redactArgs = Append(@, [to |-> "createDataFieldAlerts",
                                        redact |-> run.redact]),
              !.entry = <<traceEntry(run.trace, t, run.apiEndpoint.uuid, run.redact)>>])]
  /\ UNCHANGED <<redisPaths, metloConfig, redisTraces, pushLog, storeErrors, db,
                 txn, webhooks, commits>>
  /\ UNCHANGED <<sweepLocals, configVars, cliVars>>

\* one call of pushToListPipeline, and whether the store carried it out
pushCall(key, items, maxItems, ok) ==
  [key |-> key, items |-> items, maxItems |-> maxItems, ok |-> ok]

\* the push log after the items entered the list at key
logged(key, items) ==
  withList(pushLog, key, listAt(pushLog, key) \o items)

\* the run after a call of pushToListPipeline
afterPush(run, call) ==
  IF pushReturns(call.ok)
  THEN advance([run EXCEPT !.pushCalls = Append(@, call)])
  ELSE afterThrow([run EXCEPT !.pushCalls = Append(@, call)])

\* lines 381-393
AnalyzePushTrace(t) ==
  /\ runs[t].pc = "pushTrace"
  /\ \E ok \in BOOLEAN :
       LET run == runs[t]
           uuid == run.apiEndpoint.uuid
           key == endpointTraceKey(uuid)
           call == pushCall(key, run.entry, TRACE_IN_MEM_RETENTION_COUNT, ok)
       IN  /\ runs' = [runs EXCEPT ![t] = afterPush(run, call)]
           /\ IF ok
              THEN /\ redisTraces' = withList(redisTraces, uuid,
                         pushToListPipeline(listAt(redisTraces, uuid),
                                            call.items, call.maxItems))
                   /\ pushLog' = logged(key, call.items)
                   /\ UNCHANGED storeErrors
              ELSE /\ storeErrors' = Append(storeErrors, [trace |-> t, key |-> key])
                   /\ UNCHANGED <<redisTraces, pushLog>>
  /\ UNCHANGED <<redisPaths, metloConfig, db, txn, webhooks, commits>>
  /\ UNCHANGED <<sweepLocals, configVars, cliVars>>

\* lines 395-404, entered when the endpoint is not userSet
AnalyzePushPath(t) ==
  /\ runs[t].pc = "pushPath"
  /\ \E ok \in BOOLEAN :
       LET run == runs[t]
           uuid == run.apiEndpoint.uuid
           key == endpointPathKey(uuid)
           call == pushCall(key, <<run.entry[1].path>>,
                            TRACE_PATH_IN_MEM_RETENTION_COUNT, ok)
       IN  /\ runs' = [runs EXCEPT ![t] = afterPush(run, call)]
           /\ IF ok
              THEN /\ redisPaths' = withList(redisPaths, uuid,
                         pushToListPipeline(listAt(redisPaths, uuid),
                                            call.items, call.maxItems))
                   /\ pushLog' = logged(key, call.items)
                   /\ UNCHANGED storeErrors
              ELSE /\ storeErrors' = Append(storeErrors, [trace |-> t, key |-> key])
                   /\ UNCHANGED <<redisPaths, pushLog>>
  /\ UNCHANGED <<metloConfig, redisTraces, db, txn, webhooks, commits>>
  /\ UNCHANGED <<sweepLocals, configVars, cliVars>>

\* the values of .set({firstDetected, lastActive, riskScore}) for the row uuid
endpointWrite(endpoint) ==
  [uuid          |-> endpoint.uuid,
   firstDetected |-> endpoint.firstDetected,
   lastActive    |-> endpoint.lastActive,
   riskScore     |-> endpoint.riskScore]

\* lines 413-423
AnalyzeUpdateEndpoint(t) ==
  /\ runs[t].pc = "updateEndpoint"
  /\ LET run == runs[t]
     IN  /\ txn' = [txn EXCEPT ![t].endpointWrites =
                      IF shouldUpdateEndpoint(run.prevRiskScore, run.prevLastActive,
                                              run.apiEndpoint)
                      THEN Append(@, endpointWrite(run.apiEndpoint))
                      ELSE @]
         /\ runs' = [runs EXCEPT ![t] = advance(run)]
  /\ UNCHANGED <<redisPaths, metloConfig, redisTraces, pushLog, storeErrors, db,
                 webhooks, commits>>
  /\ UNCHANGED <<sweepLocals, configVars, cliVars>>

\* line 428
AnalyzeUpdateDataFields(t) ==
  /\ runs[t].pc = "updateDataFields"
  /\ txn' = [txn EXCEPT ![t].dataFields = @ \o runs[t].dataFields]
  /\ runs' = [runs EXCEPT ![t] = advance(runs[t])]
  /\ UNCHANGED <<redisPaths, metloConfig, redisTraces, pushLog, storeErrors, db,
                 webhooks, commits>>
  /\ UNCHANGED <<sweepLocals, configVars, cliVars>>

\* the keys of the alert rows another open transaction inserted and has not
\* committed: an insert of one of them waits for that transaction to end
keysHeldByOthers(t) ==
  UNION {{txn[u].alerts[i].key : i \in 1..Len(txn[u].alerts)} :
           u \in {w \in DOMAIN txn : w # t /\ txn[w].state = "active"}}

\* lines 436-438
AnalyzeInsertAlerts(t) ==
  /\ runs[t].pc = "insertAlerts"
  /\ LET run == runs[t]
         res == insertAlertsOrIgnore(db.alerts \o txn[t].alerts, run.alerts)
     IN  /\ \A i \in 1..Len(run.alerts) : run.alerts[i].key \notin keysHeldByOthers(t)
         /\ IF res.error
            THEN /\ runs' = [runs EXCEPT ![t] =
                        afterThrow([run EXCEPT !.rejected = Append(@, "duplicate key")])]
                 /\ UNCHANGED txn
            ELSE /\ runs' = [runs EXCEPT ![t] = advance(run)]
                 /\ txn' = [txn EXCEPT ![t].alerts =
                              SubSeq(res.rows, Len(db.alerts) + 1, Len(res.rows))]
  /\ UNCHANGED <<redisPaths, metloConfig, redisTraces, pushLog, storeErrors, db,
                 webhooks, commits>>
  /\ UNCHANGED <<sweepLocals, configVars, cliVars>>

\* line 443: sendWebhookRequests hands the alerts over for delivery and
\* returns; the delivery ends later, on its own
AnalyzeSendWebhook(t) ==
  /\ runs[t].pc = "webhook"
  /\ webhooks' = [webhooks EXCEPT ![t] =
       IF Len(runs[t].alerts) > 0
       THEN [state |-> "pending", alerts |-> runs[t].alerts]
       ELSE @]
  /\ runs' = [runs EXCEPT ![t] = advance(runs[t])]
  /\ UNCHANGED <<redisPaths, metloConfig, redisTraces, pushLog, storeErrors, db,
                 txn, commits>>
  /\ UNCHANGED <<sweepLocals, configVars, cliVars>>

\* the awaited calls that can throw into analyze: the two cached getters, the
\* two alert collaborators and the three statements on the query runner (the
\* update only when it is executed)
canThrow(run) ==
  \/ run.pc \in {"start", "redact", "specDiff", "dataFieldAlerts",
                 "updateDataFields", "insertAlerts"}
  \/ /\ run.pc = "updateEndpoint"
     /\ shouldUpdateEndpoint(run.prevRiskScore, run.prevLastActive, run.apiEndpoint)

AnalyzeThrows(t) ==
  /\ canThrow(runs[t])
  /\ runs' = [runs EXCEPT ![t] =
                afterThrow([runs[t] EXCEPT !.rejected = Append(@, runs[t].pc)])]
  /\ UNCHANGED <<redisPaths, metloConfig, redisTraces, pushLog, storeErrors, db,
                 txn, webhooks, commits>>
  /\ UNCHANGED <<sweepLocals, configVars, cliVars>>

\* the committed rows after the writes w of one transaction are applied
applyWrites(rows, w) ==
  [endpoints |->
     [u \in DOMAIN rows.endpoints |->
        IF \E i \in 1..Len(w.endpointWrites) : w.endpointWrites[i].uuid = u
        THEN LET i == CHOOSE j \in 1..Len(w.endpointWrites) :
                        w.endpointWrites[j].uuid = u
             IN  [riskScore     |-> w.endpointWrites[i].riskScore,
                  firstDetected |-> w.endpointWrites[i].firstDetected,
                  lastActive    |-> w.endpointWrites[i].lastActive]
        ELSE rows.endpoints[u]],
   dataFields |-> rows.dataFields \cup {w.dataFields[i] : i \in 1..Len(w.dataFields)},
   alerts |-> rows.alerts \o w.alerts]

\* the caller, after analyze returned: commit
CallerCommit(t) ==
  /\ runs[t].pc = "done"
  /\ txn[t].state = "active"
  /\ db' = applyWrites(db, txn[t])
  /\ txn' = [txn EXCEPT ![t].state = "committed"]
  /\ commits' = Append(commits, t)
  /\ UNCHANGED <<redisPaths, metloConfig, runs, redisTraces, pushLog, storeErrors,
                 webhooks>>
  /\ UNCHANGED <<sweepLocals, configVars, cliVars>>

\* the caller, after analyze threw: roll back
CallerRollback(t) ==
  /\ runs[t].pc = "failed"
  /\ txn[t].state = "active"
  /\ txn' = [txn EXCEPT ![t] = [state |-> "rolledBack", endpointWrites |-> <<>>,
                                dataFields |-> <<>>, alerts |-> <<>>]]
  /\ UNCHANGED <<redisPaths, metloConfig, runs, redisTraces, pushLog, storeErrors,
                 db, webhooks, commits>>
  /\ UNCHANGED <<sweepLocals, configVars, cliVars>>

\* a delivery handed over by sendWebhookRequests ends
WebhookDelivers(t) ==
  /\ webhooks[t].state = "pending"
  /\ webhooks' = [webhooks EXCEPT ![t].state = "delivered"]
  /\ UNCHANGED <<redisPaths, metloConfig, runs, redisTraces, pushLog, storeErrors,
                 db, txn, commits>>
  /\ UNCHANGED <<sweepLocals, configVars, cliVars>>

WebhookFails(t) ==
  /\ webhooks[t].state = "pending"
  /\ webhooks' = [webhooks EXCEPT ![t].state = "failed"]
  /\ UNCHANGED <<redisPaths, metloConfig, runs, redisTraces, pushLog, storeErrors,
                 db, txn, commits>>
  /\ UNCHANGED <<sweepLocals, configVars, cliVars>>

(***************************************************************************)
(* The calls of analyze that are checked                                   *)
(***************************************************************************)
\* the endpoint row every run starts from
EndpointRow0 ==
  [riskScore |-> 0, firstDetected |-> 2, lastActive |-> 2]

\* the entity the caller loaded and passes as apiEndpoint
EndpointEntity(uuid, userSet, fullTraceCaptureEnabled) ==
  [uuid |-> uuid, userSet |-> userSet,
   fullTraceCaptureEnabled |-> fullTraceCaptureEnabled,
   riskScore |-> EndpointRow0.riskScore,
   firstDetected |-> EndpointRow0.firstDetected,
   lastActive |-> EndpointRow0.lastActive]

\* a run that has not started, for the arguments given and for what the
\* collaborators will find
NewRun(trace, endpoint, newEndpoint, skipDataFields, found) ==
  [pc |-> "start", threw |-> "", rejected |-> <<>>, stages |-> <<>>,
   trace |-> trace, received |-> trace, apiEndpoint |-> endpoint,
   before |-> endpoint,
   newEndpoint |-> newEndpoint, skipDataFields |-> skipDataFields,
   found |-> found,
   prevRiskScore |-> 0, prevLastActive |-> 0, dataFields |-> <<>>,
   redact |-> FALSE, redactArgs |-> <<>>, alerts |-> <<>>, entry |-> <<>>,
   pushCalls |-> <<>>]

\* the state before the runs given start: one endpoint e1, its two lists
\* holding what earlier traces pushed
InitAnalysis(newRuns, userSet, conf, earlierTraces, earlierPaths) ==
  /\ NoConfig
  /\ NoTests
  /\ runs = newRuns
  /\ txn = [t \in DOMAIN newRuns |->
              [state |-> "active", endpointWrites |-> <<>>, dataFields |-> <<>>,
               alerts |-> <<>>]]
  /\ webhooks = [t \in DOMAIN newRuns |-> [state |-> "none", alerts |-> <<>>]]
  /\ db = [endpoints |-> [u \in {"e1"} |-> EndpointRow0],
           dataFields |-> {},
           alerts |-> <<>>]
  /\ commits = <<>>
  /\ storeErrors = <<>>
  /\ redisTraces = [u \in {"e1"} |-> earlierTraces]
  /\ redisPaths = [u \in {"e1"} |-> earlierPaths]
  /\ pushLog = [k \in {endpointTraceKey("e1"), endpointPathKey("e1")} |->
                  IF k = endpointTraceKey("e1") THEN Expand(earlierTraces)
                  ELSE Expand(earlierPaths)]
  /\ metloConfig = conf
  /\ apiEndpoint = [u \in {"e1"} |->
                      [path |-> "/users/{param1}", userSet |-> userSet,
                       isGraphQl |-> FALSE]]
  /\ pc = "connect"
  /\ minAnalyzeTraces = 0
  /\ endpoints = <<>>
  /\ idx = 1
  /\ tracePaths = <<>>
  /\ returned = NoValue
  /\ released = FALSE
  /\ completed = {}
  /\ raised = {}
  /\ fixLog = <<>>
  /\ updatePathsCalls = <<>>

\* one trace of varied content, analyzed alone
ContentParameters ==
  {<<>>, <<[name |-> "ids[]", value |-> "4111"]>>}

ContentRequestHeaders ==
  {<<>>, <<[name |-> "x-phone", value |-> "555-12"]>>}

ContentResponseHeaders ==
  {<<[name |-> "etag", value |-> "v1"]>>}

ContentRequestBodies ==
  {StringBody(""), ArrayBody(<<"4111", "ok">>)}

ContentResponseBodies ==
  {StringBody("card 4111"), StringBody("ok")}

CreatedAts == {1, 2, 3}

Traces1 ==
  [path : {"/users/7"}, createdAt : CreatedAts,
   requestParameters : ContentParameters,
   requestHeaders : ContentRequestHeaders,
   responseHeaders : ContentResponseHeaders,
   requestBody : ContentRequestBodies,
   responseBody : ContentResponseBodies]

Found1 ==
  [riskScore : {0, 1}, dataFields : {<<"card">>}, specDiff : {<<"diff">>},
   dataFieldAlerts : {<<"pii">>}]

InitAnalyze ==
  \E trace \in Traces1, found \in Found1 :
    \E userSet, fullTraceCaptureEnabled, newEndpoint, skipDataFields \in BOOLEAN :
      \E g \in {NoValue, <<TRUE>>, <<FALSE>>} :
        InitAnalysis(
          [t \in {"t1"} |->
             NewRun(trace, EndpointEntity("e1", userSet, fullTraceCaptureEnabled),
                    newEndpoint, skipDataFields, found)],
          userSet,
          [minAnalyzeTraces |-> NoValue, globalFullTraceCapture |-> g],
          <<>>, <<>>)

\* two traces of one endpoint, analyzed at the same time, on lists that are
\* empty or full
Trace2(createdAt) ==
  [path |-> "/users/" \o NumStr(createdAt), createdAt |-> createdAt,
   requestParameters |-> <<>>, requestHeaders |-> <<>>,
   responseHeaders |-> <<>>, requestBody |-> StringBody(""),
   responseBody |-> StringBody("ok")]

Found2 ==
  [riskScore : {1}, dataFields : {<<"card">>}, specDiff : {<<>>, <<"diff">>},
   dataFieldAlerts : {<<>>}]

\* an entry an earlier trace left in the trace list
EarlierEntry ==
  traceEntry(Trace2(0), "t0", "e1", TRUE)

EarlierLists ==
  { [traces |-> <<>>, paths |-> <<>>],
    [traces |-> <<[v |-> EarlierEntry, n |-> TRACE_IN_MEM_RETENTION_COUNT]>>,
     paths  |-> <<[v |-> "/users/0", n |-> TRACE_PATH_IN_MEM_RETENTION_COUNT]>>] }

InitConcurrent ==
  \E found \in [{"t1", "t2"} -> Found2], newEndpoint \in [{"t1", "t2"} -> BOOLEAN] :
    \E userSet \in BOOLEAN, earlier \in EarlierLists :
      InitAnalysis(
        [t \in {"t1", "t2"} |->
           NewRun(Trace2(IF t = "t1" THEN 3 ELSE 4),
                  EndpointEntity("e1", userSet, FALSE),
                  newEndpoint[t], FALSE, found[t])],
        userSet,
        [minAnalyzeTraces |-> NoValue, globalFullTraceCapture |-> NoValue],
        earlier.traces, earlier.paths)

\* the steps of the runs, of their callers and of the webhook deliveries
NextAnalyze ==
  \/ \E t \in DOMAIN runs : AnalyzeStart(t)
  \/ \E t \in DOMAIN runs : AnalyzeRedact(t)
  \/ \E t \in DOMAIN runs : AnalyzeSpecDiff(t)
  \/ \E t \in DOMAIN runs : AnalyzeDataFieldAlerts(t)
  \/ \E t \in DOMAIN runs : AnalyzePushTrace(t)
  \/ \E t \in DOMAIN runs : AnalyzePushPath(t)
  \/ \E t \in DOMAIN runs : AnalyzeUpdateEndpoint(t)
  \/ \E t \in DOMAIN runs : AnalyzeUpdateDataFields(t)
  \/ \E t \in DOMAIN runs : AnalyzeInsertAlerts(t)
  \/ \E t \in DOMAIN runs : AnalyzeSendWebhook(t)
  \/ \E t \in DOMAIN runs : AnalyzeThrows(t)
  \/ \E t \in DOMAIN runs : CallerCommit(t)
  \/ \E t \in DOMAIN runs : CallerRollback(t)
  \/ \E t \in DOMAIN runs : WebhookDelivers(t)
  \/ \E t \in DOMAIN runs : WebhookFails(t)

SpecAnalyze ==
  InitAnalyze /\ [][NextAnalyze]_vars

SpecConcurrent ==
  InitConcurrent /\ [][NextAnalyze]_vars

(***************************************************************************)
(* The sample store under callers that push one after the other            *)
(***************************************************************************)
\* most items pushed to the one key
MaxPushed == 6

StorePaths == {"/users/1", "/users/2", "/orders"}

\* the item lists of one call: one or two paths
StoreItems ==
  [1..1 -> StorePaths] \cup [1..2 -> StorePaths]

InitStore ==
  InitOne("/users/{param1}", <<>>, 2)

\* one call pushToListPipeline(ctx, endpointPaths:e#e1, items,
\* TRACE_PATH_IN_MEM_RETENTION_COUNT, _)
StorePush ==
  /\ \E items \in StoreItems :
       /\ Len(listAt(pushLog, endpointPathKey("e1"))) + Len(items) <= MaxPushed
       /\ redisPaths' = withList(redisPaths, "e1",
            pushToListPipeline(listAt(redisPaths, "e1"), items,
                               TRACE_PATH_IN_MEM_RETENTION_COUNT))
       /\ pushLog' = logged(endpointPathKey("e1"), items)
  /\ UNCHANGED <<metloConfig, runs, redisTraces, storeErrors, db, txn, webhooks,
                 commits>>
  /\ UNCHANGED <<sweepLocals, configVars, cliVars>>

NextStore ==
  StorePush

SpecStore ==
  InitStore /\ [][NextStore]_vars

(***************************************************************************)
(* The configuration service (metlo-config/index.ts).  A configuration is  *)
(* a YAML document; the object jsyaml.load makes of it is the sequence of  *)
(* its [key, value] entries in document order, a scalar being its text and *)
(* the kind YAML resolves it to.                                           *)
(***************************************************************************)
\* the lines of a document, each ended by a line feed
RECURSIVE yamlLinesFrom(_, _, _)
yamlLinesFrom(s, i, cur) ==
  IF i > Len(s) THEN (IF cur = "" THEN <<>> ELSE <<cur>>)
  ELSE IF Ch(s, i) = "\n" THEN <<cur>> \o yamlLinesFrom(s, i + 1, "")
  ELSE yamlLinesFrom(s, i + 1, cur \o Ch(s, i))

\* the index of the first ": " of a line, 0 when it has none
RECURSIVE colonFrom(_, _)
colonFrom(line, i) ==
  IF i + 1 > Len(line) THEN 0
  ELSE IF SubSeq(line, i, i + 1) = ": " THEN i
  ELSE colonFrom(line, i + 1)

\* the kind the core schema of YAML resolves a plain scalar to
yamlScalar(text) ==
  [kind |-> IF text \in {"true", "false"} THEN "boolean"
            ELSE IF Len(text) >= 1 /\ \A i \in 1..Len(text) : Ch(text, i) \in Digit
            THEN "number"
            ELSE "string",
   text |-> text]

yamlEntry(line) ==
  [key |-> SubSeq(line, 1, colonFrom(line, 1) - 1),
   value |-> yamlScalar(SubSeq(line, colonFrom(line, 1) + 2, Len(line)))]

\* jsyaml.load of a block mapping of plain scalars; "{}" is the empty object
jsyamlLoad(s) ==
  IF s = "{}\n" THEN <<>>
  ELSE [i \in 1..Len(yamlLinesFrom(s, 1, "")) |->
          yamlEntry(yamlLinesFrom(s, 1, "")[i])]

\* jsyaml.dump of such an object: one "key: value" line per entry
RECURSIVE jsyamlDumpFrom(_, _)
jsyamlDumpFrom(obj, i) ==
  IF i > Len(obj) THEN ""
  ELSE obj[i].key \o ": " \o obj[i].value.text \o "\n" \o jsyamlDumpFrom(obj, i + 1)

jsyamlDump(obj) ==
  IF obj = <<>> THEN "{}\n" ELSE jsyamlDumpFrom(obj, 1)

\* the decimal number a text of digits denotes
RECURSIVE numberOf(_, _)
numberOf(text, n) ==
  IF n = 0 THEN 0 ELSE 10 * numberOf(text, n - 1) + DigitVal(Ch(text, n))

\* the JavaScript value of a scalar
scalarValue(sc) ==
  CASE sc.kind = "number"  -> numberOf(sc.text, Len(sc.text))
    [] sc.kind = "boolean" -> (sc.text = "true")
    [] sc.kind = "string"  -> sc.text

\* "key" in obj
hasKey(obj, key) ==
  \E i \in 1..Len(obj) : obj[i].key = key

\* obj.key: undefined when the object has no such key
prop(obj, key) ==
  IF hasKey(obj, key)
  THEN <<scalarValue(obj[CHOOSE i \in 1..Len(obj) : obj[i].key = key].value)>>
  ELSE NoValue

\* the object as MetloConfigType, for the fields the cached getters read
MetloConfigType(obj) ==
  [minAnalyzeTraces |-> prop(obj, "minAnalyzeTraces"),
   globalFullTraceCapture |-> prop(obj, "globalFullTraceCapture")]

\* the rows of a table of a context: a context that wrote nothing has none
rowsOf(table, ctx) ==
  IF ctx \in DOMAIN table THEN table[ctx] ELSE <<>>

\* .from(MetloConfig, "config").limit(1).getRawOne(): no order is asked for,
\* so any of the rows may be the one returned; <<>> when there is none
getRawOne(rows) ==
  IF rows = <<>> THEN {NoValue} ELSE {<<rows[i]>> : i \in 1..Len(rows)}

\* a getMetloConfigProcessed that parses whatever it finds
getMetloConfigProcessedNoDefault(config) ==
  IF config = NoValue THEN <<[key |-> "minAnalyzeTraces", value |-> yamlScalar("0")]>>
  ELSE jsyamlLoad(config[1].configString)

\* getMetloConfigProcessed, for the row the query returned
getMetloConfigProcessed(config) ==
  IF config = NoValue \/ config[1].configString = ""
  THEN <<>>
  ELSE jsyamlLoad(config[1].configString)

\* a cache that answers with the entry of whichever context has one
cacheGetAnyContext(cache, ctx) ==
  IF \E c \in DOMAIN cache : cache[c] # NoValue
  THEN cache[CHOOSE c \in DOMAIN cache : cache[c] # NoValue]
  ELSE NoValue

\* metloConfigCache.get(ctx, "cachedMetloConfig"): undefined when the context
\* has no live entry
cacheGet(cache, ctx) ==
  IF ctx \in DOMAIN cache THEN cache[ctx] ELSE NoValue

\* metloConfigCache.set(ctx, "cachedMetloConfig", value)
cacheSet(cache, ctx, value) ==
  [c \in DOMAIN cache \cup {ctx} |-> IF c = ctx THEN <<value>> ELSE cache[c]]

\* what the cached getter of a read returns for the configuration it got
getterResult(getter, conf) ==
  IF getter = "minAnalyzeTraces"
  THEN getMinAnalyzeTracesCached(MetloConfigType(conf))
  ELSE getGlobalFullTraceCaptureCached(MetloConfigType(conf))

\* a read that got its configuration and returned
readReturns(read, conf) ==
  [read EXCEPT !.pc = "done", !.conf = <<conf>>,
               !.result = <<getterResult(read.getter, conf)>>]

\* lines 65-68: the cache is asked; a hit is returned at once
ReadCacheGet(r) ==
  /\ reads[r].pc = "get"
  /\ LET cacheRes == cacheGet(metloConfigCache, reads[r].ctx)
     IN reads' = [reads EXCEPT ![r] =
          IF cacheRes # NoValue
          THEN [readReturns(@, cacheRes[1]) EXCEPT
                  !.cacheRes = cacheRes,
                  !.after = {p \in DOMAIN populates : populates[p].committed}]
          ELSE [@ EXCEPT !.pc = "load"]]
  /\ UNCHANGED <<configDb, metloConfigCache, populates>>
  /\ UNCHANGED <<metloConfig, redisPaths, sweepLocals, analyzeVars, cliVars>>

\* line 69, lines 47-56: the query of getMetloConfigProcessed and what it
\* makes of the row
ReadLoad(r) ==
  /\ reads[r].pc = "load"
  /\ \E config \in getRawOne(rowsOf(configDb.config, reads[r].ctx)) :
       reads' = [reads EXCEPT ![r] =
         [@ EXCEPT !.pc = "set", !.row = config,
                   !.realRes = <<getMetloConfigProcessed(config)>>,
                   !.after = {p \in DOMAIN populates : populates[p].committed}]]
  /\ UNCHANGED <<configDb, metloConfigCache, populates>>
  /\ UNCHANGED <<metloConfig, redisPaths, sweepLocals, analyzeVars, cliVars>>

\* the query throws: the getter has no try and rejects
ReadLoadThrows(r) ==
  /\ reads[r].pc = "load"
  /\ reads' = [reads EXCEPT ![r] = [@ EXCEPT !.pc = "failed"]]
  /\ UNCHANGED <<configDb, metloConfigCache, populates>>
  /\ UNCHANGED <<metloConfig, redisPaths, sweepLocals, analyzeVars, cliVars>>

\* lines 70-74: what was loaded is cached and returned
ReadCacheSet(r) ==
  /\ reads[r].pc = "set"
  /\ metloConfigCache' = cacheSet(metloConfigCache, reads[r].ctx, reads[r].realRes[1])
  /\ reads' = [reads EXCEPT ![r] = readReturns(@, reads[r].realRes[1])]
  /\ UNCHANGED <<configDb, populates>>
  /\ UNCHANGED <<metloConfig, redisPaths, sweepLocals, analyzeVars, cliVars>>

\* new NodeCache({ stdTTL: 60, checkperiod: 10 }): an entry is gone once its
\* time to live has passed, whatever was persisted meanwhile
CacheExpire(ctx) ==
  /\ cacheGet(metloConfigCache, ctx) # NoValue
  /\ metloConfigCache' = [metloConfigCache EXCEPT ![ctx] = NoValue]
  /\ UNCHANGED <<configDb, populates, reads>>
  /\ UNCHANGED <<metloConfig, redisPaths, sweepLocals, analyzeVars, cliVars>>

\* a cached getter that was not called yet, with its history fields (after:
\* the calls of populateMetloConfig that had committed when it found its
\* entry in the cache or, without one, when it queried)
NewRead(ctx, getter) ==
  [ctx |-> ctx, getter |-> getter, pc |-> "get", cacheRes |-> NoValue,
   row |-> NoValue, realRes |-> NoValue, conf |-> NoValue, result |-> NoValue,
   after |-> {}]

(***************************************************************************)
(* populateMetloConfig, one action per awaited step.  populates[p] holds   *)
(* the arguments and the locals of call p and the state of its query       *)
(* runner; what it wrote is pending in its transaction until the commit.   *)
(***************************************************************************)
\* whether validateMetloConfig accepts the document: it is a mapping and the
\* fields the schema types have their type
isValidConfig(configString) ==
  /\ \A i \in 1..Len(yamlLinesFrom(configString, 1, "")) :
        colonFrom(yamlLinesFrom(configString, 1, "")[i], 1) > 1
  /\ LET obj == jsyamlLoad(configString)
     IN \A i \in 1..Len(obj) :
          /\ obj[i].key = "minAnalyzeTraces" => obj[i].value.kind = "number"
          /\ obj[i].key = "globalFullTraceCapture" => obj[i].value.kind = "boolean"

\* validateMetloConfig: the object of a document it accepts
validateMetloConfig(configString) ==
  jsyamlLoad(configString)

\* the object without a key: delete obj.key
deleteKey(obj, key) ==
  SelectSeq(obj, LAMBDA e : e.key # key)

\* encrypt(JSON.stringify(globalTestEnv), key, iv).encrypted
encrypt(text) ==
  "enc(" \o text \o ")"

\* lines 166-190
populateEnvironment(parsedConfigString) ==
  IF hasKey(parsedConfigString, "globalTestEnv")
  THEN [configString |-> jsyamlDump(deleteKey(parsedConfigString, "globalTestEnv")),
        env |-> encrypt(prop(parsedConfigString, "globalTestEnv")[1])]
  ELSE [configString |-> jsyamlDump(parsedConfigString), env |-> ""]

\* the rows a query on runner p sees: the committed ones (read committed)
visibleRows(p) ==
  rowsOf(configDb.config, populates[p].ctx)

\* the awaited step that follows a step of populateMetloConfig
nextStep(step, found) ==
  CASE step = "connect"                -> "validate"
    [] step = "validate"               -> "startTransaction"
    [] step = "startTransaction"       -> "populateAuthentication"
    [] step = "populateAuthentication" -> "populateBlockFields"
    [] step = "populateBlockFields"    -> "select"
    [] step = "select"                 -> IF found THEN "update" ELSE "insert"
    [] step = "update"                 -> "commit"
    [] step = "insert"                 -> "commit"
    [] step = "commit"                 -> "release"

\* the call after its step at pc completed
stepDone(call) ==
  [call EXCEPT !.pc = nextStep(call.pc, call.metloConfigEntry # NoValue),
               !.steps = Append(@, call.pc)]

\* the call after its step at pc threw: the catch block is next
stepThrew(call) ==
  [call EXCEPT !.pc = "catch", !.error = <<call.pc>>]

populateOthers ==
  <<metloConfig, redisPaths, sweepLocals, analyzeVars, cliVars>>

\* line 198
PopulateConnect(p) ==
  /\ populates[p].pc = "connect"
  /\ populates' = [populates EXCEPT ![p] = [stepDone(@) EXCEPT !.connected = TRUE]]
  /\ UNCHANGED <<configDb, metloConfigCache, reads, populateOthers>>

\* line 199
PopulateValidate(p) ==
  /\ populates[p].pc = "validate"
  /\ populates' = [populates EXCEPT ![p] =
       IF isValidConfig(populates[p].configString)
       THEN [stepDone(@) EXCEPT !.metloConfig = <<validateMetloConfig(populates[p].configString)>>]
       ELSE stepThrew(@)]
  /\ UNCHANGED <<configDb, metloConfigCache, reads, populateOthers>>

\* line 200
PopulateStartTransaction(p) ==
  /\ populates[p].pc = "startTransaction"
  /\ populates' = [populates EXCEPT ![p] =
       [stepDone(@) EXCEPT !.isTransactionActive = TRUE, !.started = TRUE]]
  /\ UNCHANGED <<configDb, metloConfigCache, reads, populateOthers>>

\* line 201: the authentication rows of the context are replaced by those
\* of the new configuration
PopulateAuthentication(p) ==
  /\ populates[p].pc = "populateAuthentication"
  /\ populates' = [populates EXCEPT ![p] =
       [stepDone(@) EXCEPT !.pending.authentication = <<p>>]]
  /\ UNCHANGED <<configDb, metloConfigCache, reads, populateOthers>>

\* line 202: and so are its block fields
PopulateBlockFields(p) ==
  /\ populates[p].pc = "populateBlockFields"
  /\ populates' = [populates EXCEPT ![p] =
       [stepDone(@) EXCEPT !.pending.blockFields = <<p>>]]
  /\ UNCHANGED <<configDb, metloConfigCache, reads, populateOthers>>

\* lines 203-207: is there a row already
PopulateSelect(p) ==
  /\ populates[p].pc = "select"
  /\ \E entry \in getRawOne(visibleRows(p)) :
       populates' = [populates EXCEPT ![p] =
         stepDone([@ EXCEPT !.metloConfigEntry = entry,
                            !.seen = Len(visibleRows(p))])]
  /\ UNCHANGED <<configDb, metloConfigCache, reads, populateOthers>>

\* the calls other than p whose transaction holds an update of the rows of
\* the context of p
updatingOthers(p) ==
  {q \in DOMAIN populates \ {p} :
     /\ populates[q].ctx = populates[p].ctx
     /\ populates[q].isTransactionActive
     /\ ~populates[q].released
     /\ populates[q].pending.config # NoValue
     /\ populates[q].pending.config[1].op = "update"}

\* lines 208-217: every row of the context is set (the update has no WHERE);
\* the statement waits for a transaction that holds an update of these rows
PopulateUpdate(p) ==
  /\ populates[p].pc = "update"
  /\ updatingOthers(p) = {}
  /\ populates' = [populates EXCEPT ![p] =
       [stepDone(@) EXCEPT !.pending.config =
          <<[op |-> "update", rows |-> Len(visibleRows(p)),
             set |-> populateEnvironment(populates[p].metloConfig[1])]>>]]
  /\ UNCHANGED <<configDb, metloConfigCache, reads, populateOthers>>

\* the insert of one more row; MetloConfig.create() gives it a uuid of its own
insertRow(rows, row) ==
  Append(rows, row)

\* lines 219-235
PopulateInsert(p) ==
  /\ populates[p].pc = "insert"
  /\ populates' = [populates EXCEPT ![p] =
       [stepDone(@) EXCEPT !.pending.config =
          <<[op |-> "insert", rows |-> 0,
             set |-> populateEnvironment(populates[p].metloConfig[1])]>>]]
  /\ UNCHANGED <<configDb, metloConfigCache, reads, populateOthers>>

\* the rows of the config table of a context after a pending write
configRowsAfter(rows, write, p) ==
  IF write = NoValue THEN rows
  ELSE IF write[1].op = "insert"
  THEN insertRow(rows, [uuid |-> p, configString |-> write[1].set.configString,
                        env |-> write[1].set.env])
  ELSE [i \in 1..Len(rows) |->
          IF i <= write[1].rows
          THEN [rows[i] EXCEPT !.configString = write[1].set.configString,
                               !.env = write[1].set.env]
          ELSE rows[i]]

\* a table of the context after a pending replacement
replaced(table, ctx, write) ==
  IF write = NoValue THEN table
  ELSE [c \in DOMAIN table \cup {ctx} |-> IF c = ctx THEN write ELSE table[c]]

\* the committed rows after the transaction of call p committed
committed(database, call, p) ==
  [config |->
     [c \in DOMAIN database.config \cup {call.ctx} |->
        IF c = call.ctx
        THEN configRowsAfter(rowsOf(database.config, c), call.pending.config, p)
        ELSE database.config[c]],
   authentication |-> replaced(database.authentication, call.ctx, call.pending.authentication),
   blockFields |-> replaced(database.blockFields, call.ctx, call.pending.blockFields)]

NoWrites ==
  [authentication |-> NoValue, blockFields |-> NoValue, config |-> NoValue]

\* line 237
PopulateCommit(p) ==
  /\ populates[p].pc = "commit"
  /\ configDb' = committed(configDb, populates[p], p)
  /\ populates' = [populates EXCEPT ![p] =
       [stepDone(@) EXCEPT !.isTransactionActive = FALSE, !.pending = NoWrites,
                           !.committed = TRUE]]
  /\ UNCHANGED <<metloConfigCache, reads, populateOthers>>

\* the awaited steps that may throw; a write that throws may have written
\* part of its rows before
canThrowAt ==
  {"connect", "startTransaction", "populateAuthentication", "populateBlockFields",
   "select", "update", "insert", "commit"}

PopulateThrows(p) ==
  /\ populates[p].pc \in canThrowAt
  /\ \E partial \in BOOLEAN :
       populates' = [populates EXCEPT ![p] =
         [stepThrew(@) EXCEPT
            !.pending.authentication =
               IF partial /\ populates[p].pc = "populateAuthentication" THEN <<p>> ELSE @,
            !.pending.blockFields =
               IF partial /\ populates[p].pc = "populateBlockFields" THEN <<p>> ELSE @]]
  /\ UNCHANGED <<configDb, metloConfigCache, reads, populateOthers>>

\* a catch block that leaves the transaction as it is
afterCatchNoRollback(call) ==
  [call EXCEPT !.pc = "release", !.rethrown = call.error]

\* lines 238-242: roll back when a transaction is active, throw again
afterCatch(call) ==
  [call EXCEPT !.pc = "release", !.rethrown = call.error,
               !.isTransactionActive = FALSE,
               !.rolledBack = call.isTransactionActive,
               !.pending = NoWrites]

PopulateCatch(p) ==
  /\ populates[p].pc = "catch"
  /\ populates' = [populates EXCEPT ![p] = afterCatch(@)]
  /\ UNCHANGED <<configDb, metloConfigCache, reads, populateOthers>>

\* lines 243-245: the runner is released, and the call resolves or rejects
\* with what the catch block threw again
PopulateRelease(p) ==
  /\ populates[p].pc = "release"
  /\ populates' = [populates EXCEPT ![p] =
       [@ EXCEPT !.pc = "done", !.released = TRUE,
                 !.outcome = IF populates[p].rethrown = NoValue THEN "resolved" ELSE "rejected"]]
  /\ UNCHANGED <<configDb, metloConfigCache, reads, populateOthers>>

\* a call that has not started, with its history fields
NewPopulate(ctx, configString, database) ==
  [ctx |-> ctx, configString |-> configString, pc |-> "connect",
   metloConfig |-> NoValue, metloConfigEntry |-> NoValue, seen |-> 0,
   connected |-> FALSE, isTransactionActive |-> FALSE, started |-> FALSE,
   pending |-> NoWrites, committed |-> FALSE, rolledBack |-> FALSE,
   error |-> NoValue, rethrown |-> NoValue, released |-> FALSE,
   outcome |-> "", steps |-> <<>>, before |-> database]

(***************************************************************************)
(* The configuration service under its callers                             *)
(***************************************************************************)
Ctxs == {"c1", "c2"}

\* the documents callers submit: typed fields in either order, a test
\* environment, and one whose field has the wrong type
ConfigStrings ==
  {"minAnalyzeTraces: 5\n",
   "globalFullTraceCapture: true\nminAnalyzeTraces: 0\n",
   "globalTestEnv: secret\n",
   "minAnalyzeTraces: many\n"}

\* what an earlier call left for a context
StoredRow(uuid, configString) ==
  [uuid |-> uuid, configString |-> configString, env |-> ""]

\* the committed rows when the calls start: the first context has no row or
\* one, the second has one of its own
ConfigDbs ==
  { [config |-> [c \in {"c2"} |-> <<StoredRow("u2", "minAnalyzeTraces: 7\n")>>],
     authentication |-> [c \in {"c2"} |-> <<"u2">>],
     blockFields |-> [c \in {"c2"} |-> <<"u2">>]],
    [config |-> [c \in Ctxs |->
                   IF c = "c1"
                   THEN <<StoredRow("u1", "globalFullTraceCapture: false\n")>>
                   ELSE <<StoredRow("u2", "minAnalyzeTraces: 7\n")>>],
     authentication |-> [c \in Ctxs |-> IF c = "c1" THEN <<"u1">> ELSE <<"u2">>],
     blockFields |-> [c \in Ctxs |-> IF c = "c1" THEN <<"u1">> ELSE <<"u2">>]] }

Getters == {"minAnalyzeTraces", "globalFullTraceCapture"}

\* the state before the calls given start, the cache being empty
InitConfiguration(database, calls, newReads) ==
  /\ configDb = database
  /\ metloConfigCache = <<>>
  /\ populates = calls
  /\ reads = newReads
  /\ NoTests
  /\ NoAnalysis
  /\ apiEndpoint = <<>>
  /\ redisPaths = <<>>
  /\ metloConfig = [minAnalyzeTraces |-> NoValue]
  /\ pc = "connect"
  /\ minAnalyzeTraces = 0
  /\ endpoints = <<>>
  /\ idx = 1
  /\ tracePaths = <<>>
  /\ returned = NoValue
  /\ released = FALSE
  /\ completed = {}
  /\ raised = {}
  /\ fixLog = <<>>
  /\ updatePathsCalls = <<>>

\* two calls of populateMetloConfig at the same time, on one context or two
InitPopulate ==
  \E database \in ConfigDbs, s1 \in ConfigStrings, s2 \in ConfigStrings, c \in Ctxs :
    InitConfiguration(
      database,
      [p \in {"p1", "p2"} |->
         IF p = "p1" THEN NewPopulate("c1", s1, database)
         ELSE NewPopulate(c, s2, database)],
      <<>>)

NextPopulate ==
  \/ \E p \in DOMAIN populates : PopulateConnect(p)
  \/ \E p \in DOMAIN populates : PopulateValidate(p)
  \/ \E p \in DOMAIN populates : PopulateStartTransaction(p)
  \/ \E p \in DOMAIN populates : PopulateAuthentication(p)
  \/ \E p \in DOMAIN populates : PopulateBlockFields(p)
  \/ \E p \in DOMAIN populates : PopulateSelect(p)
  \/ \E p \in DOMAIN populates : PopulateUpdate(p)
  \/ \E p \in DOMAIN populates : PopulateInsert(p)
  \/ \E p \in DOMAIN populates : PopulateCommit(p)
  \/ \E p \in DOMAIN populates : PopulateThrows(p)
  \/ \E p \in DOMAIN populates : PopulateCatch(p)
  \/ \E p \in DOMAIN populates : PopulateRelease(p)

SpecPopulate ==
  InitPopulate /\ [][NextPopulate]_vars

\* three cached getters, two of them of the context whose configuration one
\* call updates, while entries expire
InitCached ==
  \E database \in ConfigDbs, s1 \in ConfigStrings \ {"minAnalyzeTraces: many\n"} :
    \E c \in Ctxs, g \in Getters :
      InitConfiguration(
        database,
        [p \in {"p1"} |-> NewPopulate("c1", s1, database)],
        [r \in {"r1", "r2", "r3"} |->
           IF r = "r3" THEN NewRead(c, "globalFullTraceCapture")
           ELSE NewRead("c1", g)])

NextCached ==
  \/ \E r \in DOMAIN reads : ReadCacheGet(r)
  \/ \E r \in DOMAIN reads : ReadLoad(r)
  \/ \E r \in DOMAIN reads : ReadLoadThrows(r)
  \/ \E r \in DOMAIN reads : ReadCacheSet(r)
  \/ \E ctx \in Ctxs : CacheExpire(ctx)
  \/ NextPopulate

SpecCached ==
  InitCached /\ [][NextCached]_vars

(***************************************************************************)
(* runTestConfigs of the command line (cli/src/testing/run.ts).  cli holds *)
(* its argument tests, its locals and what it printed; a test is its uuid, *)
(* whether TestConfigSchema.safeParse accepts its config, and whether the  *)
(* result runTest gives for it is successful.                              *)
(***************************************************************************)
\* most tests in the list handed to runTestConfigs
MaxTests == 3

\* the lists of tests the backend may return
TestLists ==
  UNION {{[i \in 1..len |-> [uuid |-> "t" \o NumStr(i), parses |-> ok[i], success |-> good[i]]] :
            ok \in [1..len -> BOOLEAN], good \in [1..len -> BOOLEAN]} :
         len \in 0..MaxTests}

\* results.filter(e => !e.result.success).length
failedTests(results) ==
  Len(SelectSeq(results, LAMBDA e : ~e.result.success))

\* results.filter(e => e.result.success).length
successTests(results) ==
  Len(SelectSeq(results, LAMBDA e : e.result.success))

\* a runner that counts a test it could not parse as a failed test
parseFailedCounted(run, test) ==
  [run EXCEPT !.reported = Append(@, test.uuid),
              !.results = Append(@, [uuid |-> test.uuid, result |-> [success |-> FALSE]]),
              !.i = @ + 1]

\* lines 249-251: the test is reported and the loop goes on
parseFailed(run, test) ==
  [run EXCEPT !.reported = Append(@, test.uuid), !.i = @ + 1]

\* lines 237-248: the config parses; runTest is awaited and its result kept
CliRunTest ==
  /\ cli # <<>>
  /\ cli.pc = "loop"
  /\ cli.i <= Len(cli.tests)
  /\ cli.tests[cli.i].parses
  /\ cli' = [cli EXCEPT
       !.ran = Append(@, cli.tests[cli.i].uuid),
       !.results = Append(@, [uuid |-> cli.tests[cli.i].uuid,
                              result |-> [success |-> cli.tests[cli.i].success]]),
       !.i = @ + 1]
  /\ UNCHANGED <<metloConfig, redisPaths, sweepLocals, analyzeVars, configVars>>

\* lines 237-239, 249-251: the config does not parse
CliParseError ==
  /\ cli # <<>>
  /\ cli.pc = "loop"
  /\ cli.i <= Len(cli.tests)
  /\ ~cli.tests[cli.i].parses
  /\ cli' = parseFailed(cli, cli.tests[cli.i])
  /\ UNCHANGED <<metloConfig, redisPaths, sweepLocals, analyzeVars, configVars>>

\* lines 253-312: the totals, the summary, and process.exit(1) when a test
\* failed; otherwise the function returns
CliSummary ==
  /\ cli # <<>>
  /\ cli.pc = "loop"
  /\ cli.i > Len(cli.tests)
  /\ cli' = [cli EXCEPT
       !.pc = IF failedTests(cli.results) # 0 THEN "exited" ELSE "returned",
       !.exit = IF failedTests(cli.results) # 0 THEN <<1>> ELSE NoValue,
       !.printed =
          IF failedTests(cli.results) # 0
          THEN <<[spinner |-> "fail", count |-> failedTests(cli.results),
                  totalTests |-> Len(cli.results)]>>
          ELSE <<[spinner |-> "succeed", count |-> successTests(cli.results),
                  totalTests |-> Len(cli.results)]>>]
  /\ UNCHANGED <<metloConfig, redisPaths, sweepLocals, analyzeVars, configVars>>

\* runTestConfigs was called with a list of tests
InitTests ==
  /\ \E tests \in TestLists :
       cli = [tests |-> tests, pc |-> "loop", i |-> 1, results |-> <<>>,
              ran |-> <<>>, reported |-> <<>>, exit |-> NoValue, printed |-> <<>>]
  /\ NoConfig
  /\ NoAnalysis
  /\ apiEndpoint = <<>>
  /\ redisPaths = <<>>
  /\ metloConfig = [minAnalyzeTraces |-> NoValue]
  /\ pc = "connect"
  /\ minAnalyzeTraces = 0
  /\ endpoints = <<>>
  /\ idx = 1
  /\ tracePaths = <<>>
  /\ returned = NoValue
  /\ released = FALSE
  /\ completed = {}
  /\ raised = {}
  /\ fixLog = <<>>
  /\ updatePathsCalls = <<>>

NextTests ==
  \/ CliRunTest
  \/ CliParseError
  \/ CliSummary

SpecTests ==
  InitTests /\ [][NextTests]_vars

(***************************************************************************)
(* Properties                                                              *)
(***************************************************************************)
Range(seq) ==
  {seq[i] : i \in 1..Len(seq)}

\* the fixEndpoint calls that read their sample and ran to their end
EndedRuns ==
  {e \in Range(fixLog) : e.read /\ ~e.threw}

\* the /-separated tokens of a path, slashes at its ends aside
TokensOf(path) ==
  split(sanitizePath(path))

\* the calls of updatePaths made for an endpoint
CallsFor(uuid) ==
  SelectSeq(updatePathsCalls, LAMBDA c : c.args.endpointId = uuid)

\* a run on the worked example
IsExampleRun(e) ==
  /\ e.read
  /\ e.path = "users/{param1}"
  /\ e.minAnalyzeTraces = 2
  /\ Length(e.tracePaths) = 10
  /\ \A i \in 1..Len(e.tracePaths) : Len(TokensOf(e.tracePaths[i].v)) = 2
  /\ CountOf(TokensAt(tokenizeTraces(TokensOf(e.path), e.tracePaths), 1), "create", 1) = 4
  /\ \A i \in 1..Len(e.tracePaths) :
        LET tok == TokensOf(e.tracePaths[i].v)[2]
        IN  tok # "create" =>
              CountOf(TokensAt(tokenizeTraces(TokensOf(e.path), e.tracePaths), 1), tok, 1) <= 2

\* C1, as stated: on the worked example (template users/{param1},
\* minAnalyzeTraces 2, ten samples, create four times, every other value at
\* most twice) the generated candidates are /users/create and /users/{param1},
\* and only /users/create is registered.
C1_LiteralAndParamBranch ==
  \A e \in Range(fixLog) :
    IsExampleRun(e) =>
      /\ Range(e.candidates) = {"/users/create", "/users/{param1}"}
      /\ e.newPaths = <<"/users/create">>

\* C1, amended: on the worked example the only generated candidate is
\* /users/create, no {param1} branch is generated for the remaining samples,
\* and updatePaths is called once, with [/users/create] and without removing
\* the original template.
C1_LiteralBranchOnly ==
  \A e \in Range(fixLog) :
    IsExampleRun(e) =>
      /\ e.candidates = <<"/users/create">>
      /\ "/users/{param1}" \notin Range(e.candidates)
      /\ e.newPaths = <<"/users/create">>
      /\ Len(CallsFor(e.uuid)) = 1
      /\ CallsFor(e.uuid)[1].args.providedPaths = <<"/users/create">>
      /\ CallsFor(e.uuid)[1].args.deleteOriginal = FALSE

C1_Witness ==
  /\ pc = "done"
  /\ \E e \in Range(fixLog) :
        /\ IsExampleRun(e)
        /\ \E i \in 1..Len(e.tracePaths) :
              e.tracePaths[i].n = 1 /\ ~validTokenRegexp(TokensOf(e.tracePaths[i].v)[2])
        /\ \E i \in 1..Len(e.tracePaths) :
              e.tracePaths[i].n = 2 /\ validTokenRegexp(TokensOf(e.tracePaths[i].v)[2])

\* C2, as stated: every candidate of a run has as many /-separated tokens as
\* the endpoint's template, and a run whose samples all drop out yields no
\* candidate.
C2_CandidateTokenCount ==
  \A e \in EndedRuns :
    \A c \in Range(e.candidates) :
      Len(TokensOf(c)) = Len(TokensOf(e.path))

\* C3, as stated: every position that is a constant of the template holds
\* that same token in every candidate of the run.
C3_ConstantPreservation ==
  \A e \in EndedRuns :
    \A c \in Range(e.candidates) :
      \A p \in 1..Len(TokensOf(e.path)) :
        TokenTypeOf(TokensOf(e.path)[p]) = TokenType_CONSTANT =>
          /\ p <= Len(TokensOf(c))
          /\ TokensOf(c)[p] = TokensOf(e.path)[p]

\* C4: a fixEndpoint call that reads fewer than minAnalyzeTraces paths
\* produces no candidate, calls updatePaths for no path and does not throw.
C4_ThresholdGating ==
  \A e \in Range(fixLog) :
    (e.read /\ Length(e.tracePaths) < e.minAnalyzeTraces) =>
      /\ e.candidates = <<>>
      /\ e.newPaths = <<>>
      /\ ~e.called
      /\ ~e.threw
      /\ CallsFor(e.uuid) = <<>>

C4_Witness ==
  /\ pc = "done"
  /\ returned = <<TRUE>>
  /\ \E e \in Range(fixLog) :
        /\ e.read
        /\ Length(e.tracePaths) > 0
        /\ Length(e.tracePaths) < e.minAnalyzeTraces
        /\ \E i \in 1..Len(e.tracePaths) :
              /\ Len(TokensOf(e.tracePaths[i].v)) = Len(TokensOf(e.path))
              /\ TokensOf(e.tracePaths[i].v)[1] # TokensOf(e.path)[1]

\* the calls getPaths(subset, position, ...) of one run that get as far as
\* computing validTokens: the first call and the recursive ones
RECURSIVE VisitedCalls(_, _, _, _)
VisitedCalls(tokens, min, subset, position) ==
  IF Length(subset) = 0 \/ position >= Len(tokens) THEN {}
  ELSE LET toks == validTokens(tokens, min, subset, position)
       IN  {[subset |-> subset, position |-> position]}
             \cup (IF toks = <<>>
                   THEN VisitedCalls(tokens, min, subset, position + 1)
                   ELSE UNION {VisitedCalls(tokens, min,
                                 SelectSeq(subset, LAMBDA t : t.v[position + 1] = toks[i]),
                                 position + 1) : i \in 1..Len(toks)})

CallsOfRun(e) ==
  VisitedCalls(TokensOf(e.path), e.minAnalyzeTraces,
               tokenizeTraces(TokensOf(e.path), e.tracePaths), 0)

\* the number of paths of the subset whose token at the position is value
Occurrences(subset, position, value) ==
  LET hits == {i \in 1..Len(subset) : subset[i].v[position + 1] = value}
      RECURSIVE Sum(_)
      Sum(set) == IF set = {} THEN 0
                  ELSE LET i == CHOOSE j \in set : TRUE
                       IN  subset[i].n + Sum(set \ {i})
  IN  Sum(hits)

\* only letters, -, _ and ., and at least one character
IsLiteral(value) ==
  /\ value # ""
  /\ \A i \in 1..Len(value) :
        /\ SubSeq(value, i, i) \notin Digit
        /\ SubSeq(value, i, i) \in Lower \cup Upper \cup {"-", "_", "."}

\* the promotion rule of the specification, for a subset of n paths
ShouldPromote(value, subset, position, min) ==
  LET n == Length(subset)
      c == Occurrences(subset, position, value)
  IN  /\ n >= min
      /\ IsLiteral(value)
      /\ (10 * c > 3 * n \/ (c > 500 /\ 10 * c > n))

\* every token of the template and of the sampled paths, and one of neither
ValuesOfRun(e) ==
  Range(TokensOf(e.path)) \cup {"absent"}
    \cup UNION {Range(TokensOf(e.tracePaths[i].v)) : i \in 1..Len(e.tracePaths)}

\* C5: at a PARAM position a value becomes a constant branch if and only if
\* the subset has at least minAnalyzeTraces paths, the value is made of
\* letters, -, _ and . only, and its count c among the n paths of the subset
\* has c > 0.3 n, or c > 500 and c > 0.1 n.
C5_PromotionRule ==
  \A e \in EndedRuns :
    ~e.skipped =>
      \A call \in CallsOfRun(e) :
        TokenTypeOf(TokensOf(e.path)[call.position + 1]) = TokenType_PARAM =>
          \A value \in ValuesOfRun(e) :
            (value \in Range(validTokens(TokensOf(e.path), e.minAnalyzeTraces,
                                         call.subset, call.position)))
              <=> ShouldPromote(value, call.subset, call.position, e.minAnalyzeTraces)

\* a run in which a value at a PARAM position is promoted by its count
\* above 500 alone (not above 0.3 n) and shows in a candidate
C5_Witness ==
  /\ pc = "done"
  /\ \E e \in EndedRuns :
        /\ ~e.skipped
        /\ \E call \in CallsOfRun(e) :
              /\ \E value \in ValuesOfRun(e) :
                    LET n == Length(call.subset)
                        c == Occurrences(call.subset, call.position, value)
                    IN  /\ c > 500 /\ 10 * c <= 3 * n /\ 10 * c > n
                        /\ IsLiteral(value)
                        /\ \E p \in 1..Len(e.candidates) :
                              TokensOf(e.candidates[p])[call.position + 1] = value

\* C7: the list handed to updatePaths is the generated candidates less those
\* equal to the current template once the slashes at the ends are stripped;
\* updatePaths is called at most once per endpoint in a sweep, with
\* discovered = true and deleteOriginal = false, and not at all when that
\* list is empty.
C7_RegisterCall ==
  /\ \A e \in Range(fixLog) :
        e.read =>
          LET expected == SelectSeq(e.candidates,
                            LAMBDA c : sanitizePath(c) # sanitizePath(e.path))
              calls    == CallsFor(e.uuid)
          IN  IF expected = <<>>
              THEN calls = <<>> /\ ~e.called
              ELSE /\ e.called
                   /\ Len(calls) = 1
                   /\ calls[1].args = [endpointId     |-> e.uuid,
                                       providedPaths  |-> expected,
                                       deleteOriginal |-> FALSE,
                                       discovered     |-> TRUE]
  /\ \A u \in Uuids : Len(CallsFor(u)) <= 1
  /\ \A c \in Range(updatePathsCalls) :
        \E e \in Range(fixLog) : e.uuid = c.args.endpointId /\ e.called

\* a finished sweep in which one endpoint's only candidate was its own
\* template (no call) and another endpoint's candidates were registered
C7_Witness ==
  /\ pc = "done"
  /\ \E e1, e2 \in Range(fixLog) :
        /\ e1.candidates # <<>> /\ e1.newPaths = <<>> /\ CallsFor(e1.uuid) = <<>>
        /\ e2.newPaths # <<>> /\ Len(CallsFor(e2.uuid)) = 1

\* C8, as stated: updatePaths is never called for an endpoint that is userSet
\* or isGraphQl when the call is made.
C8_NeverRegistersUserSet ==
  \A c \in Range(updatePathsCalls) :
    ~c.userSet /\ ~c.isGraphQl

\* C9, as stated: when the sweep has ended, inference was run for every
\* endpoint the query returned, whether or not an earlier one threw.
C9_SweepContinuesAfterError ==
  (pc = "done" /\ "query" \in completed) =>
    \A i \in 1..Len(endpoints) :
      \E e \in Range(fixLog) : e.uuid = endpoints[i].uuid

\* the config read, the query and every fixEndpoint call completed
AllCompleted ==
  /\ "config" \in completed
  /\ "query" \in completed
  /\ \A i \in 1..Len(endpoints) :
        \/ endpoints[i].userSet
        \/ \E e \in Range(fixLog) : e.uuid = endpoints[i].uuid /\ ~e.threw

\* C10: fixEndpoints ends by returning a boolean: true exactly when the
\* config read, the query and every fixEndpoint call completed, false when
\* one of them threw; queryRunner.release() was called either way.
C10_BooleanResult ==
  /\ pc = "done" =>
        /\ released
        /\ Len(returned) = 1
        /\ returned[1] = TRUE <=> AllCompleted
        /\ raised # {} => returned[1] = FALSE
  /\ pc # "done" => ~released

\* a sweep that ended with false after fixEndpoint threw for an endpoint
C10_Witness ==
  /\ pc = "done"
  /\ released
  /\ returned = <<FALSE>>
  /\ {"connect", "config", "query"} \subseteq completed
  /\ \E e \in Range(fixLog) : e.threw

(***************************************************************************)
(* Properties of analyze                                                   *)
(***************************************************************************)
\* the calls of pushToListPipeline run t made on the key given
PushCallsOn(t, key) ==
  {i \in 1..Len(runs[t].pushCalls) : runs[t].pushCalls[i].key = key}

\* the entries of run t that the trace list of its endpoint holds
StoredEntries(t) ==
  {e \in Range(Expand(listAt(redisTraces, runs[t].apiEndpoint.uuid))) : e.uuid = t}

\* the entries of run t, pushed or stored
EntriesOf(t) ==
  {runs[t].pushCalls[i].items[1] :
     i \in PushCallsOn(t, endpointTraceKey(runs[t].apiEndpoint.uuid))}
  \cup StoredEntries(t)

\* e carries no content at all
IsCleared(e) ==
  /\ Len(e.requestParameters) = 0
  /\ Len(e.requestHeaders) = 0
  /\ Len(e.responseHeaders) = 0
  /\ ~e.requestBody.isArray /\ e.requestBody.text = ""
  /\ ~e.responseBody.isArray /\ e.responseBody.text = ""

\* e carries the content of the trace tr
KeepsContent(e, tr) ==
  /\ e.requestParameters = tr.requestParameters
  /\ e.requestHeaders = tr.requestHeaders
  /\ e.responseHeaders = tr.responseHeaders
  /\ e.requestBody = tr.requestBody
  /\ e.responseBody = tr.responseBody

\* C11 (redaction contract): an entry pushed to or held by the trace list
\* carries the sensitive-data map of the trace's full content (the content
\* after step 1 rewrote the parameter names and the array bodies); when the
\* run redacts, the entry's parameters, headers and bodies are empty and it
\* is marked redacted; when the run does not redact, the entry keeps the
\* content and is not marked redacted.
C11_RedactionContract ==
  \A t \in DOMAIN runs :
    \A e \in EntriesOf(t) :
      /\ e.sensitiveDataMap = getSensitiveDataMap(runs[t].trace)
      /\ runs[t].redact => IsCleared(e) /\ e.redacted
      /\ ~runs[t].redact => KeepsContent(e, runs[t].trace) /\ ~e.redacted

\* a redacting run stored an entry whose map is not empty, of a trace that
\* had parameters and an array body
C11_Witness ==
  \E t \in DOMAIN runs :
    /\ runs[t].redact
    /\ Len(runs[t].trace.requestParameters) > 0
    /\ runs[t].trace.requestBody.text = "[\"4111\",\"ok\"]"
    /\ \E e \in StoredEntries(t) :
          /\ [section |-> "reqQuery", name |-> "ids"] \in e.sensitiveDataMap
          /\ [section |-> "reqBody", name |-> ""] \in e.sensitiveDataMap

\* the global flag as configured: absent counts as off
GlobalCaptureOn ==
  metloConfig.globalFullTraceCapture = <<TRUE>>

\* C12 (redaction decision): once a run has decided, redact is false when the
\* global flag is on, false when the endpoint's flag is on, and true only
\* when both are off; the spec-diff and the data-field-alert collaborators
\* are both handed that value, and the entry is cleared under that value.
C12_RedactDecision ==
  \A t \in DOMAIN runs :
    LET run == runs[t]
        endpointOn == run.apiEndpoint.fullTraceCaptureEnabled
    IN  "redact" \in Range(run.stages) =>
          /\ (GlobalCaptureOn /\ endpointOn) => ~run.redact
          /\ (GlobalCaptureOn /\ ~endpointOn) => ~run.redact
          /\ (~GlobalCaptureOn /\ endpointOn) => ~run.redact
          /\ (~GlobalCaptureOn /\ ~endpointOn) => run.redact
          /\ \A i \in 1..Len(run.redactArgs) : run.redactArgs[i].redact = run.redact
          /\ "specDiff" \in Range(run.stages) =>
                \E i \in 1..Len(run.redactArgs) :
                  run.redactArgs[i].to = "findOpenApiSpecDiff"
          /\ "dataFieldAlerts" \in Range(run.stages) =>
                /\ \E i \in 1..Len(run.redactArgs) :
                      run.redactArgs[i].to = "createDataFieldAlerts"
                /\ run.entry[1].redacted = run.redact
                /\ run.redact <=> IsCleared(run.entry[1])

\* a run with content decided not to redact on the endpoint's flag alone,
\* told both collaborators and left the entry uncleared
C12_Witness ==
  \E t \in DOMAIN runs :
    /\ runs[t].pc = "done"
    /\ ~GlobalCaptureOn
    /\ runs[t].apiEndpoint.fullTraceCaptureEnabled
    /\ ~runs[t].redact
    /\ Len(runs[t].redactArgs) = 2
    /\ ~IsCleared(runs[t].entry[1])

\* the calls of pushToListPipeline of run t that the store failed to carry out
FailedPushes(t) ==
  {i \in 1..Len(runs[t].pushCalls) : ~runs[t].pushCalls[i].ok}

\* the three statements on the query runner were all executed by run t and
\* its transaction holds what they wrote
WroteAll(t) ==
  /\ {"updateEndpoint", "updateDataFields", "insertAlerts"} \subseteq Range(runs[t].stages)
  /\ txn[t].state = "active" =>
        /\ txn[t].dataFields = runs[t].dataFields
        /\ shouldUpdateEndpoint(runs[t].prevRiskScore, runs[t].prevLastActive,
                                runs[t].apiEndpoint)
             => txn[t].endpointWrites = <<endpointWrite(runs[t].apiEndpoint)>>
        /\ \A i \in 1..Len(runs[t].alerts) :
              \E j \in 1..Len(db.alerts \o txn[t].alerts) :
                (db.alerts \o txn[t].alerts)[j].key = runs[t].alerts[i].key

Persisted(t) ==
  /\ \A i \in 1..Len(runs[t].dataFields) : runs[t].dataFields[i] \in db.dataFields
  /\ \A i \in 1..Len(runs[t].alerts) :
        \E j \in 1..Len(db.alerts) : db.alerts[j].key = runs[t].alerts[i].key
  /\ shouldUpdateEndpoint(runs[t].prevRiskScore, runs[t].prevLastActive,
                          runs[t].apiEndpoint)
       => \E u \in DOMAIN db.endpoints :
            /\ u = runs[t].apiEndpoint.uuid
            /\ db.endpoints[u].riskScore = runs[t].apiEndpoint.riskScore
            /\ db.endpoints[u].lastActive = runs[t].apiEndpoint.lastActive
            /\ db.endpoints[u].firstDetected = runs[t].apiEndpoint.firstDetected

PastEndpointUpdate(t) ==
  /\ "updateEndpoint" \in Range(runs[t].stages)
  /\ txn[t].state \in {"active", "committed"}

\* one of the three fields differs from what the endpoint held when analyze
\* was entered
RiskOrDatesDiffer(t) ==
  \/ runs[t].apiEndpoint.riskScore # runs[t].before.riskScore
  \/ runs[t].apiEndpoint.firstDetected # runs[t].before.firstDetected
  \/ runs[t].apiEndpoint.lastActive # runs[t].before.lastActive

\* C15 (risk-update skip): a run writes riskScore, firstDetected and
\* lastActive of its endpoint exactly when one of the three differs from its
\* value when analyze was entered.
C15_RiskUpdateIff ==
  \A t \in DOMAIN runs :
    PastEndpointUpdate(t) =>
      (Len(txn[t].endpointWrites) > 0 <=> RiskOrDatesDiffer(t))

\* the alert rows a reader of any transaction can meet: the committed ones
\* and those the open transactions inserted
AllAlertRows ==
  {db.alerts[i] : i \in 1..Len(db.alerts)}
  \cup UNION {{txn[t].alerts[i] : i \in 1..Len(txn[t].alerts)} :
                t \in {u \in DOMAIN txn : txn[u].state = "active"}}

\* the place of trace t among the committed transactions
CommitIndex(t) ==
  CHOOSE i \in 1..Len(commits) : commits[i] = t

HasAlertKey(t, key) ==
  \E i \in 1..Len(runs[t].alerts) : runs[t].alerts[i].key = key

\* C16 (alert dedup): the alert rows, committed or inserted by an open
\* transaction, hold at most one row per key; the committed row of a key is
\* the one of the first committed run that had the key, so a later insert of
\* the key changed nothing; and no insert ever raises a duplicate-key error.
C16_AlertDedup ==
  /\ \A a, b \in AllAlertRows : a.key = b.key => a = b
  /\ \A i, j \in 1..Len(db.alerts) : db.alerts[i].key = db.alerts[j].key => i = j
  /\ \A i \in 1..Len(db.alerts) :
        /\ db.alerts[i].trace \in Range(commits)
        /\ \A u \in Range(commits) :
              HasAlertKey(u, db.alerts[i].key) =>
                 CommitIndex(db.alerts[i].trace) <= CommitIndex(u)
  /\ \A t \in DOMAIN runs : "duplicate key" \notin Range(runs[t].rejected)

\* two runs with two alert keys in common were both committed: one row per
\* key, both rows of the run that committed first
C16_Witness ==
  /\ Len(commits) = 2
  /\ \A t \in DOMAIN runs : Len(runs[t].alerts) = 2
  /\ Len(db.alerts) = 2
  /\ \A i \in 1..Len(db.alerts) : db.alerts[i].trace = commits[1]

\* the rows before any of the runs
Rows0 ==
  [endpoints |-> [u \in {"e1"} |-> EndpointRow0], dataFields |-> {}, alerts |-> <<>>]

\* what a run that ran to its end writes, given the alert rows stored
WritesOf(t, rows) ==
  [endpointWrites |->
     IF shouldUpdateEndpoint(runs[t].prevRiskScore, runs[t].prevLastActive,
                             runs[t].apiEndpoint)
     THEN <<endpointWrite(runs[t].apiEndpoint)>> ELSE <<>>,
   dataFields |-> runs[t].dataFields,
   alerts |-> SubSeq(insertAlertsOrIgnore(rows.alerts, runs[t].alerts).rows,
                     Len(rows.alerts) + 1,
                     Len(insertAlertsOrIgnore(rows.alerts, runs[t].alerts).rows))]

\* the rows after the first n committed runs, and nothing else, wrote
RECURSIVE RowsAfter(_)
RowsAfter(n) ==
  IF n = 0 THEN Rows0
  ELSE applyWrites(RowsAfter(n - 1), WritesOf(commits[n], RowsAfter(n - 1)))

\* the statements of analyze on the query runner
PersistenceStages ==
  {"updateEndpoint", "updateDataFields", "insertAlerts"}

\* one of the three statements of run t on the query runner failed
PersistenceFailed(t) ==
  \E i \in 1..Len(runs[t].rejected) : runs[t].rejected[i] \in PersistenceStages

\* C17 (transactional failure isolation): when the endpoint update, the
\* data-field persistence or the alert insertion of a run fails, analyze
\* ends by throwing at that statement, its transaction is never committed,
\* no stored alert row is its own, no webhook is ever handed its alerts, and
\* the stored rows are exactly what the committed runs wrote, in commit
\* order: the failure changed nothing that another trace committed.
C17_FailureIsolation ==
  /\ \A t \in DOMAIN runs :
        PersistenceFailed(t) =>
          /\ runs[t].pc = "failed"
          /\ runs[t].threw \in PersistenceStages
          /\ txn[t].state # "committed"
          /\ t \notin Range(commits)
          /\ webhooks[t].state = "none"
          /\ \A i \in 1..Len(db.alerts) : db.alerts[i].trace # t
          /\ txn[t].state = "rolledBack" =>
                /\ Len(txn[t].endpointWrites) = 0
                /\ Len(txn[t].dataFields) = 0
                /\ Len(txn[t].alerts) = 0
  /\ db = RowsAfter(Len(commits))

\* the alert insertion of one run failed after its endpoint update and data
\* fields were written, and it was rolled back; the other run committed
\* its rows before that
C17_Witness ==
  \E t, u \in DOMAIN runs :
    /\ t # u
    /\ runs[t].threw = "insertAlerts"
    /\ shouldUpdateEndpoint(runs[t].prevRiskScore, runs[t].prevLastActive,
                            runs[t].apiEndpoint)
    /\ txn[t].state = "rolledBack"
    /\ commits = <<u>>
    /\ Len(db.alerts) > 0
    /\ db.endpoints["e1"].lastActive = runs[u].apiEndpoint.lastActive
    /\ runs[u].apiEndpoint.lastActive # runs[t].apiEndpoint.lastActive

\* the last k elements of a sequence, all of it when it is shorter
LastOf(seq, k) ==
  SubSeq(seq, IF Len(seq) > k THEN Len(seq) - k + 1 ELSE 1, Len(seq))

\* the list at a key holds the most recent maxCount items pushed to the key,
\* in push order
HoldsMostRecent(list, key, maxCount) ==
  /\ Length(list) <= maxCount
  /\ Expand(list) = LastOf(listAt(pushLog, key), maxCount)

\* C18 (cap under concurrency): in every state, so in every state a range
\* read can meet, the trace list and the path list of an endpoint hold at
\* most their retention count of items, and these are the items pushed last.
C18_CapUnderConcurrency ==
  /\ \A u \in DOMAIN redisTraces :
        HoldsMostRecent(redisTraces[u], endpointTraceKey(u),
                        TRACE_IN_MEM_RETENTION_COUNT)
  /\ \A u \in DOMAIN redisPaths :
        HoldsMostRecent(lrange(u), endpointPathKey(u),
                        TRACE_PATH_IN_MEM_RETENTION_COUNT)

\* two runs pushed to lists that were full: both lists are at their cap, the
\* trace list holds the entries of the two runs and nothing older
C18_Witness ==
  /\ Length(listAt(redisTraces, "e1")) = TRACE_IN_MEM_RETENTION_COUNT
  /\ Len(listAt(pushLog, endpointTraceKey("e1"))) = TRACE_IN_MEM_RETENTION_COUNT + 2
  /\ \A t \in DOMAIN runs : StoredEntries(t) # {}
  /\ Length(lrange("e1")) = TRACE_PATH_IN_MEM_RETENTION_COUNT
  /\ Len(listAt(pushLog, endpointPathKey("e1"))) = TRACE_PATH_IN_MEM_RETENTION_COUNT + 2

\* C19 (sample bound): once the calls on a key have pushed more than maxCount
\* items, a range read returns exactly maxCount items, the ones pushed last,
\* in push order.
C19_SampleBound ==
  LET pushed == listAt(pushLog, endpointPathKey("e1"))
  IN  Len(pushed) > TRACE_PATH_IN_MEM_RETENTION_COUNT =>
        /\ Length(lrange("e1")) = TRACE_PATH_IN_MEM_RETENTION_COUNT
        /\ Expand(lrange("e1")) =
             SubSeq(pushed, Len(pushed) - TRACE_PATH_IN_MEM_RETENTION_COUNT + 1,
                    Len(pushed))

\* more items than the cap were pushed, of three different paths, and the
\* read returns the last ones
C19_Witness ==
  LET pushed == listAt(pushLog, endpointPathKey("e1"))
  IN  /\ Len(pushed) >= TRACE_PATH_IN_MEM_RETENTION_COUNT + 2
      /\ Range(pushed) = StorePaths
      /\ pushed[1] # pushed[Len(pushed)]
      /\ Length(lrange("e1")) = TRACE_PATH_IN_MEM_RETENTION_COUNT
      /\ Expand(lrange("e1"))[TRACE_PATH_IN_MEM_RETENTION_COUNT] = pushed[Len(pushed)]

\* run t is past its pushes
PastPushes(t) ==
  /\ "pushTrace" \in Range(runs[t].stages)
  /\ runs[t].pc # "pushPath"

\* C20 (what a run pushes): a run calls the store at most once per key and
\* with one item per call; a run that is past its pushes has pushed one
\* entry to the trace key of its endpoint, and has pushed to the path key
\* exactly when the endpoint is not userSet; the path pushed is the path of
\* the trace as received, whether or not the run redacts.
C20_PushesPerRun ==
  \A t \in DOMAIN runs :
    LET run == runs[t]
        traceCalls == PushCallsOn(t, endpointTraceKey(run.apiEndpoint.uuid))
        pathCalls == PushCallsOn(t, endpointPathKey(run.apiEndpoint.uuid))
    IN  /\ traceCalls \cup pathCalls = 1..Len(run.pushCalls)
        /\ Cardinality(traceCalls) <= 1
        /\ Cardinality(pathCalls) <= 1
        /\ \A i \in 1..Len(run.pushCalls) : Len(run.pushCalls[i].items) = 1
        /\ \A i \in traceCalls : run.pushCalls[i].items[1].uuid = t
        /\ \A i \in pathCalls : run.pushCalls[i].items[1] = run.received.path
        /\ PastPushes(t) =>
              /\ Cardinality(traceCalls) = 1
              /\ Cardinality(pathCalls) = 1 <=> ~run.apiEndpoint.userSet

\* a redacting run of an endpoint that is not userSet ended: its cleared
\* entry is in the trace list and the path of its trace in the path list
C20_Witness ==
  \E t \in DOMAIN runs :
    /\ runs[t].pc = "done"
    /\ runs[t].redact
    /\ ~runs[t].apiEndpoint.userSet
    /\ \E e \in StoredEntries(t) : IsCleared(e)
    /\ Expand(lrange(runs[t].apiEndpoint.uuid)) = <<"/users/7">>

(***************************************************************************)
(* Properties of the configuration service                                 *)
(***************************************************************************)
DoneReads ==
  {r \in DOMAIN reads : reads[r].pc = "done"}

\* what the documents that can be stored set: the minimum and the capture
\* flag, <<>> for a field the document does not set
FieldsSetBy(configString) ==
  CASE configString = "minAnalyzeTraces: 5\n" ->
         [minAnalyzeTraces |-> <<5>>, globalFullTraceCapture |-> <<>>]
    [] configString = "minAnalyzeTraces: 7\n" ->
         [minAnalyzeTraces |-> <<7>>, globalFullTraceCapture |-> <<>>]
    [] configString = "globalFullTraceCapture: true\nminAnalyzeTraces: 0\n" ->
         [minAnalyzeTraces |-> <<0>>, globalFullTraceCapture |-> <<TRUE>>]
    [] configString = "globalFullTraceCapture: false\n" ->
         [minAnalyzeTraces |-> <<>>, globalFullTraceCapture |-> <<FALSE>>]
    [] configString = "{}\n" ->
         [minAnalyzeTraces |-> <<>>, globalFullTraceCapture |-> <<>>]

\* the fields set by the row a read loaded, none when there was no row
FieldsLoaded(read) ==
  IF read.row = NoValue
  THEN [minAnalyzeTraces |-> <<>>, globalFullTraceCapture |-> <<>>]
  ELSE FieldsSetBy(read.row[1].configString)

\* the fields set by the configuration a read got, loaded or cached
FieldsGot(read) ==
  IF read.realRes # NoValue THEN FieldsLoaded(read)
  ELSE MetloConfigType(read.conf[1])

\* C21: a cached getter returns the configured value of its field when the
\* configuration it got sets the field, and the default otherwise (100 for
\* minAnalyzeTraces, false for globalFullTraceCapture); the configuration
\* loaded when no row is stored sets no field.
C21_ConfigDefaults ==
  \A r \in DoneReads :
    /\ reads[r].getter = "minAnalyzeTraces" =>
         reads[r].result =
           IF FieldsGot(reads[r]).minAnalyzeTraces = <<>> THEN <<100>>
           ELSE FieldsGot(reads[r]).minAnalyzeTraces
    /\ reads[r].getter = "globalFullTraceCapture" =>
         reads[r].result =
           IF FieldsGot(reads[r]).globalFullTraceCapture = <<>> THEN <<FALSE>>
           ELSE FieldsGot(reads[r]).globalFullTraceCapture
    /\ (reads[r].realRes # NoValue /\ reads[r].row = NoValue) =>
         reads[r].conf = <<(<<>>)>>

\* one getter found no row and returned 100, and another returned the 0
\* that was configured meanwhile
C21_Witness ==
  \E r \in DoneReads, q \in DoneReads :
    /\ reads[r].getter = "minAnalyzeTraces"
    /\ reads[r].realRes # NoValue /\ reads[r].row = NoValue
    /\ reads[r].result = <<100>>
    /\ reads[q].getter = "minAnalyzeTraces"
    /\ reads[q].realRes # NoValue /\ reads[q].row # NoValue
    /\ reads[q].result = <<0>>

\* the stages of analyze in the order of the specification
StageOrder ==
  <<"dataFields", "redact", "specDiff", "dataFieldAlerts", "newEndpointAlert",
    "sensitiveDataMap", "clearing", "pushTrace", "pushPath", "updateEndpoint",
    "updateDataFields", "insertAlerts", "webhook">>

\* the place of a stage in that order; what precedes the first stage (the
\* dates, the rewriting of the trace, the data classes) has place 0
StagePlace(stage) ==
  CASE stage = "dataFields"       -> 1
    [] stage = "redact"           -> 2
    [] stage = "specDiff"         -> 3
    [] stage = "dataFieldAlerts"  -> 4
    [] stage = "newEndpointAlert" -> 5
    [] stage = "sensitiveDataMap" -> 6
    [] stage = "clearing"         -> 7
    [] stage = "pushTrace"        -> 8
    [] stage = "pushPath"         -> 9
    [] stage = "updateEndpoint"   -> 10
    [] stage = "updateDataFields" -> 11
    [] stage = "insertAlerts"     -> 12
    [] stage = "webhook"          -> 13
    [] OTHER                      -> 0

\* everything a run has done, in the order it did it
RECURSIVE WorkFrom(_, _)
WorkFrom(run, i) ==
  IF i > Len(run.stages) THEN <<>>
  ELSE stageWork(run.stages[i], run.newEndpoint, run.redact) \o WorkFrom(run, i + 1)

WorkDone(run) ==
  WorkFrom(run, 1)

\* the places of a sequence of stages go up, strictly from the first stage on
InOrder(work) ==
  \A i \in 1..(Len(work) - 1) :
    /\ StagePlace(work[i]) <= StagePlace(work[i + 1])
    /\ StagePlace(work[i + 1]) > 0 => StagePlace(work[i]) < StagePlace(work[i + 1])

\* C22: within one run the stages are done in the fixed order (data fields,
\* redaction decision, spec diff, data-field and new-endpoint alerts,
\* sensitive-data map, clearing, pushes, endpoint update, data-field
\* persistence, alert insertion, webhooks), the step in progress comes after
\* everything done, and the effect of a stage is there only when the stages
\* before it are done: a push after the entry was built, a write of the
\* endpoint after the trace push, alerts pending after the data fields were
\* persisted, webhooks dispatched after the alert insertion returned.
C22_StageOrder ==
  \A t \in DOMAIN runs :
    /\ InOrder(WorkDone(runs[t]) \o
                (IF StagePlace(runs[t].pc) > 0 THEN <<runs[t].pc>> ELSE <<>>))
    /\ runs[t].pushCalls # <<>> => "dataFieldAlerts" \in Range(runs[t].stages)
    /\ txn[t].endpointWrites # <<>> => "pushTrace" \in Range(runs[t].stages)
    /\ txn[t].dataFields # <<>> => "updateEndpoint" \in Range(runs[t].stages)
    /\ txn[t].alerts # <<>> => "updateDataFields" \in Range(runs[t].stages)
    /\ webhooks[t].state # "none" =>
         runs[t].stages[Len(runs[t].stages)] \in {"insertAlerts", "webhook"}

\* a run that redacts, raises a new-endpoint alert, pushes the path and is
\* through all its stages
C22_Witness ==
  \E t \in DOMAIN runs :
    /\ runs[t].pc = "done"
    /\ Range(StageOrder) \subseteq Range(WorkDone(runs[t]))
    /\ webhooks[t].state # "none"
    /\ txn[t].endpointWrites # <<>>

\* whether a token of a candidate is a placeholder
IsPlaceholder(token) ==
  startsWith(token, "{")

\* the number of placeholders among the first n tokens
RECURSIVE PlaceholdersIn(_, _)
PlaceholdersIn(tokens, n) ==
  IF n = 0 THEN 0
  ELSE PlaceholdersIn(tokens, n - 1) + (IF IsPlaceholder(tokens[n]) THEN 1 ELSE 0)

\* the placeholders of a candidate are {param1}, {param2}, ... from the left
NumberedFromLeft(candidate) ==
  LET tokens == split(candidate)
  IN  \A i \in 1..Len(tokens) :
        IsPlaceholder(tokens[i]) =>
          tokens[i] = "{param" \o NumStr(PlaceholdersIn(tokens, i - 1) + 1) \o "}"

\* C23: in every generated candidate the placeholders are numbered
\* consecutively from left to right, {param1}, {param2}, ..., {paramK}: a
\* position that stays a parameter gets the number after the count of those
\* emitted to its left, and a position promoted to a literal uses up none.
C23_PlaceholderNumbering ==
  \A e \in EndedRuns :
    \A i \in 1..Len(e.candidates) : NumberedFromLeft(e.candidates[i])

\* a template whose parameters are numbered 5 and 2 gave a candidate whose
\* first parameter was promoted to a literal and whose second is {param1}
C23_Witness ==
  \E e \in EndedRuns :
    /\ e.path = "/api/{param5}/{param2}"
    /\ "/api/v/{param1}" \in Range(e.candidates)

\* the calls getPaths made of itself in a run of fixEndpoint
SelfCallsOfRun(e) ==
  getPathsCalls(TokensOf(e.path), e.minAnalyzeTraces,
                tokenizeTraces(TokensOf(e.path), e.tracePaths), 0)

\* the traces of a run-length encoded list, each once
TracesOf(subset) ==
  {subset[i].v : i \in 1..Len(subset)}

\* C24: the search is finite.  Every call getPaths makes of itself is made
\* at the position after its caller's, on traces of its caller's subset and
\* no more of them, by a caller that holds at least one trace and stands
\* before the token count; so no chain of calls is longer than the template
\* has tokens.
C24_SearchTerminates ==
  \A e \in EndedRuns :
    \A call \in SelfCallsOfRun(e) :
      /\ call.callee.position = call.caller.position + 1
      /\ call.callee.position <= Len(TokensOf(e.path))
      /\ Length(call.callee.subset) <= Length(call.caller.subset)
      /\ TracesOf(call.callee.subset) \subseteq TracesOf(call.caller.subset)
      /\ Length(call.caller.subset) > 0
      /\ call.caller.position < Len(TokensOf(e.path))

\* a run whose search narrowed its subset at one call and reached the token
\* count with traces left at another
C24_Witness ==
  \E e \in EndedRuns :
    /\ \E call \in SelfCallsOfRun(e) :
          /\ Length(call.callee.subset) < Length(call.caller.subset)
          /\ Length(call.callee.subset) > 0
    /\ \E call \in SelfCallsOfRun(e) :
          /\ call.callee.position = Len(TokensOf(e.path))
          /\ Length(call.callee.subset) > 0

DonePopulates ==
  {p \in DOMAIN populates : populates[p].pc = "done"}

\* the calls whose transaction committed
CommittedPopulates ==
  {p \in DOMAIN populates : populates[p].committed}

\* the configString stored for a document a caller submitted: the document
\* itself, less the test environment
StoredFor(configString) ==
  CASE configString = "minAnalyzeTraces: 5\n" -> "minAnalyzeTraces: 5\n"
    [] configString = "globalFullTraceCapture: true\nminAnalyzeTraces: 0\n" ->
         "globalFullTraceCapture: true\nminAnalyzeTraces: 0\n"
    [] configString = "globalTestEnv: secret\n" -> "{}\n"

\* the steps after the transaction started
WriteSteps ==
  {"populateAuthentication", "populateBlockFields", "select", "update", "insert",
   "commit"}

\* the three tables hold, for the context of call p, what p wrote
HoldsAllOf(p) ==
  LET c == populates[p].ctx
  IN  /\ configDb.authentication[c] = <<p>>
      /\ configDb.blockFields[c] = <<p>>
      /\ rowsOf(configDb.config, c) # <<>>
      /\ \A i \in 1..Len(configDb.config[c]) :
            configDb.config[c][i].configString = StoredFor(populates[p].configString)

\* C25: populateMetloConfig is all-or-nothing.  A call whose document fails
\* validation starts no transaction and writes nothing; a call that fails
\* after its transaction started rolls it back, so that none of its writes
\* to the three tables is kept, and rejects with the error that was thrown;
\* a call that resolves committed all three; the query runner is released
\* whenever the call ended.
C25_AllOrNothing ==
  /\ \A p \in DOMAIN populates :
       /\ populates[p].outcome # "" => populates[p].released
       /\ populates[p].error = <<"validate">> =>
            /\ ~populates[p].started
            /\ ~populates[p].committed
            /\ populates[p].pending = NoWrites
       /\ ~populates[p].started => populates[p].pending = NoWrites
  /\ \A p \in DonePopulates :
       /\ populates[p].released
       /\ ~populates[p].isTransactionActive
       /\ populates[p].pending = NoWrites
       /\ populates[p].error # NoValue =>
            /\ populates[p].outcome = "rejected"
            /\ populates[p].rethrown = populates[p].error
            /\ ~populates[p].committed
            /\ populates[p].error[1] \in WriteSteps => populates[p].rolledBack
            /\ populates[p].error[1] \notin WriteSteps => ~populates[p].started
       /\ populates[p].error = NoValue =>
            /\ populates[p].outcome = "resolved"
            /\ populates[p].committed
            /\ {"populateAuthentication", "populateBlockFields"}
                 \subseteq Range(populates[p].steps)
  /\ CommittedPopulates = {} =>
       \A p \in DOMAIN populates : configDb = populates[p].before
  /\ \A p \in CommittedPopulates :
       (\A q \in CommittedPopulates : q # p => populates[q].ctx # populates[p].ctx)
         => HoldsAllOf(p)

\* one call was refused at validation and the other failed at its write of
\* the config row, after it wrote the two other tables: both ended, the
\* tables are as they were
C25_Witness ==
  \E p \in DonePopulates, q \in DonePopulates :
    /\ populates[p].error = <<"validate">>
    /\ populates[q].error # NoValue
    /\ populates[q].error[1] \in {"update", "insert"}
    /\ populates[q].rolledBack
    /\ configDb = populates[q].before

\* C26: the configuration table of a context holds at most one row, whatever
\* calls of populateMetloConfig ran and however they overlapped.
C26_SingleRow ==
  \A c \in Ctxs : Len(rowsOf(configDb.config, c)) <= 1

\* the fields set by the configuration persisted in rows of one context
PersistedFields(rows) ==
  IF rows = <<>>
  THEN [minAnalyzeTraces |-> <<>>, globalFullTraceCapture |-> <<>>]
  ELSE FieldsSetBy(rows[1].configString)

\* the configuration persisted for a context before any of the calls ran
PersistedBefore(c) ==
  PersistedFields(rowsOf(populates[CHOOSE p \in DOMAIN populates : TRUE].before.config, c))

\* the configuration persisted for a context now
PersistedNow(c) ==
  PersistedFields(rowsOf(configDb.config, c))

\* whether a call that wrote the configuration of the context had committed
\* when the read found its entry or queried
AfterCommit(read) ==
  \E p \in read.after : populates[p].ctx = read.ctx

IsHit(read) ==
  read.cacheRes # NoValue

IsMiss(read) ==
  read.realRes # NoValue

\* C27: a cached read returns the configuration persisted for its context
\* now or the one persisted before, never that of another context and never
\* one that was not committed; so does every live cache entry.  A read that
\* finds an entry returns the entry; a read that finds none returns what was
\* persisted when it queried, the new configuration once the update has
\* committed.  The commit of an update leaves the cache as it is.
C27_CachedReads ==
  /\ [](/\ \A r \in DoneReads :
             /\ MetloConfigType(reads[r].conf[1])
                  \in {PersistedBefore(reads[r].ctx), PersistedNow(reads[r].ctx)}
             /\ IsHit(reads[r]) => reads[r].conf = reads[r].cacheRes
             /\ IsMiss(reads[r]) =>
                  MetloConfigType(reads[r].conf[1]) =
                    IF AfterCommit(reads[r]) THEN PersistedNow(reads[r].ctx)
                    ELSE PersistedBefore(reads[r].ctx)
        /\ \A c \in DOMAIN metloConfigCache :
             metloConfigCache[c] # NoValue =>
               MetloConfigType(metloConfigCache[c][1])
                 \in {PersistedBefore(c), PersistedNow(c)})
  /\ [][configDb' # configDb => metloConfigCache' = metloConfigCache]_vars

\* after the update committed, one read found the entry loaded before it and
\* returned the old configuration, and a later read, the entry having
\* expired, returned the new one
C27_Witness ==
  \E r \in DoneReads, q \in DoneReads :
    /\ reads[r].ctx = "c1" /\ reads[q].ctx = "c1"
    /\ PersistedNow("c1") # PersistedBefore("c1")
    /\ IsHit(reads[r]) /\ AfterCommit(reads[r])
    /\ MetloConfigType(reads[r].conf[1]) = PersistedBefore("c1")
    /\ IsMiss(reads[q]) /\ AfterCommit(reads[q])
    /\ MetloConfigType(reads[q].conf[1]) = PersistedNow("c1")

(***************************************************************************)
(* Properties of runTestConfigs                                            *)
(***************************************************************************)
\* the uuids of a list of tests or results, in its order
UuidsOf(list) ==
  [i \in 1..Len(list) |-> list[i].uuid]

\* the tests of the list whose config parses, in its order
ParsingTests(tests) ==
  SelectSeq(tests, LAMBDA e : e.parses)

CliEnded ==
  cli # <<>> /\ cli.pc \in {"exited", "returned"}

\* C28: runTestConfigs runs the tests whose config parses, all of them and
\* in the order of the list, and exits with status 1 if and only if the
\* result of a test it ran is unsuccessful; a test whose config does not
\* parse is reported, not run, and not counted in the totals.  The process
\* is not ended before the last test.
C28_ExitStatus ==
  /\ cli # <<>> =>
       /\ cli.ran = UuidsOf(ParsingTests(SubSeq(cli.tests, 1, cli.i - 1)))
       /\ UuidsOf(cli.results) = cli.ran
       /\ cli.reported = UuidsOf(SelectSeq(SubSeq(cli.tests, 1, cli.i - 1),
                                           LAMBDA e : ~e.parses))
       /\ cli.pc = "loop" => cli.exit = NoValue /\ cli.printed = <<>>
  /\ CliEnded =>
       /\ cli.i = Len(cli.tests) + 1
       /\ cli.exit = <<1>> <=>
            \E i \in 1..Len(cli.tests) : cli.tests[i].parses /\ ~cli.tests[i].success
       /\ cli.exit = NoValue <=> cli.pc = "returned"
       /\ cli.printed[1].totalTests = Len(ParsingTests(cli.tests))

\* a list with a test that does not parse and tests that ran and succeeded:
\* the function returned without ending the process
C28_Witness ==
  /\ CliEnded
  /\ \E i \in 1..Len(cli.tests) : ~cli.tests[i].parses /\ ~cli.tests[i].success
  /\ Len(cli.ran) >= 2
  /\ cli.exit = NoValue

=============================================================================
